---- MODULE Spec2Model ----
(***************************************************************************)
(* Verification model of github-project-agent: the Schema Checker          *)
(* (agent/validator.go checkFormat), the Content Merger                    *)
(* (preserveOriginalWithModifications), the Validation Workflow            *)
(* (ValidateAndFix, executeValidator, runValidate) and the generic Action  *)
(* Interpreter (plugins/executor.go executeGeneric).                       *)
(*                                                                         *)
(* Go strings are modelled as sequences of bytes; every byte is a          *)
(* one-character TLA+ string, a non-ASCII byte 0xNN and the backquote     *)
(* 0x60 are written "xNN".                                                 *)
(***************************************************************************)
EXTENDS Integers, Sequences, FiniteSets, TLC

VARIABLES cf, mg, store, run, log, gen

vars == <<cf, mg, store, run, log, gen>>

(***************************************************************************)
(* String literals of the source                                           *)
(***************************************************************************)
(***************************************************************************)
(* The string literals of the program, one record for each place          *)
(***************************************************************************)
\* the string literals of the validator
ValidatorText ==
  [TooShortPre |->
      <<"D","e","s","c","r","i","p","t","i","o","n"," ","t","o","o"," ","s","h","o","r","t"," ","(","m",
      "i","n","i","m","u","m"," ">>,
   TooShortPost |->
      <<" ","c","h","a","r","a","c","t","e","r","s",")">>,
   MissingSection |->
      <<"M","i","s","s","i","n","g"," ","r","e","q","u","i","r","e","d"," ","s","e","c","t","i","o","n",
      ":"," ">>,
   MissingLabelPre |->
      <<"M","i","s","s","i","n","g"," ","p","r","i","o","r","i","t","y"," ","l","a","b","e","l"," ","(",
      "s","h","o","u","l","d"," ","s","t","a","r","t"," ","w","i","t","h"," ","'">>,
   MissingLabelPost |->
      <<"'",")">>,
   NoticeHead |->
      <<"\n","<","d","e","t","a","i","l","s",">","\n","<","s","u","m","m","a","r","y",">","xF0","x9F",
      "xA4","x96"," ","<","s","t","r","o","n","g",">","A","u","t","o","m","a","t","i","c","a","l","l",
      "y"," ","m","o","d","i","f","i","e","d"," ","b","y"," ","A","g","e","n","t","<","/","s","t","r",
      "o","n","g",">"," ","-"," ","C","l","i","c","k"," ","t","o"," ","s","e","e"," ","w","h","a","t",
      " ","c","h","a","n","g","e","d","<","/","s","u","m","m","a","r","y",">","\n","\n","T","h","i","s",
      " ","i","s","s","u","e"," ","w","a","s"," ","a","u","t","o","m","a","t","i","c","a","l","l","y",
      " ","u","p","d","a","t","e","d"," ","t","o"," ","c","o","m","p","l","y"," ","w","i","t","h"," ",
      "f","o","r","m","a","t"," ","g","u","i","d","e","l","i","n","e","s",".","\n","\n","*","*","I","s",
      "s","u","e","s"," ","f","i","x","e","d",":","*","*","\n">>,
   NoticeTail |->
      <<"\n","<","/","d","e","t","a","i","l","s",">","\n">>,
   Sep |->
      <<"\n","\n","-","-","-","\n","\n">>,
   OrigHead |->
      <<"\n","\n","-","-","-","\n","\n","<","d","e","t","a","i","l","s",">","\n","<","s","u","m","m",
      "a","r","y",">","xF0","x9F","x93","x8B"," ","O","r","i","g","i","n","a","l"," ","c","o","n","t",
      "e","n","t"," ","(","p","r","e","s","e","r","v","e","d"," ","f","o","r"," ","r","e","f","e","r",
      "e","n","c","e",")","<","/","s","u","m","m","a","r","y",">","\n","\n">>,
   OrigTail |->
      <<"\n","\n","<","/","d","e","t","a","i","l","s",">","\n">>,
   FixComment |->
      <<"xF0","x9F","xA4","x96"," ","*","*","A","g","e","n","t","*","*",":"," ","I","'","v","e"," ","u",
      "p","d","a","t","e","d"," ","t","h","i","s"," ","t","a","s","k"," ","t","o"," ","f","o","l","l",
      "o","w"," ","o","u","r"," ","f","o","r","m","a","t"," ","g","u","i","d","e","l","i","n","e","s",
      ".","\n","\n","I","s","s","u","e","s"," ","f","i","x","e","d",":","\n">>,
   PromptHead |->
      <<"Y","o","u"," ","a","r","e"," ","a"," ","t","a","s","k"," ","f","o","r","m","a","t"," ","e",
      "n","f","o","r","c","e","r"," ","f","o","r"," ","a"," ","G","i","t","H","u","b"," ","p","r",
      "o","j","e","c","t","."," ","F","i","x"," ","t","h","e"," ","f","o","l","l","o","w","i","n",
      "g"," ","t","a","s","k"," ","t","o"," ","c","o","m","p","l","y"," ","w","i","t","h"," ","t",
      "h","e"," ","f","o","r","m","a","t"," ","g","u","i","d","e","l","i","n","e","s",".">>,
   PromptGuidelines |->
      <<"\n","\n","P","r","o","j","e","c","t"," ","G","u","i","d","e","l","i","n","e","s",":","\n">>,
   PromptInstructions |->
      <<"\n","\n","I","n","s","t","r","u","c","t","i","o","n","s",":","\n">>,
   PromptTask |->
      <<"\n","\n","C","u","r","r","e","n","t"," ","t","a","s","k",":","\n","T","i","t","l","e",":",
      " ">>,
   PromptBody |->
      <<"\n","B","o","d","y",":"," ">>,
   PromptViolations |->
      <<"\n","\n","F","o","r","m","a","t"," ","v","i","o","l","a","t","i","o","n","s",":","\n">>,
   PromptFormat |->
      <<"\n","\n","R","e","q","u","i","r","e","d"," ","f","o","r","m","a","t",":","\n","-"," ","D",
      "e","s","c","r","i","p","t","i","o","n",":"," ","A","t"," ","l","e","a","s","t"," ">>,
   PromptSections |->
      <<" ","c","h","a","r","a","c","t","e","r","s","\n","-"," ","R","e","q","u","i","r","e","d",
      " ","s","e","c","t","i","o","n","s",":"," ">>,
   PromptLabel |->
      <<"\n","-"," ","P","r","i","o","r","i","t","y"," ","l","a","b","e","l",":"," ","M","u","s",
      "t"," ","h","a","v","e"," ","a"," ","l","a","b","e","l"," ","s","t","a","r","t","i","n","g",
      " ","w","i","t","h"," ","\"">>,
   PromptTail |->
      <<"\"","\n","\n","P","l","e","a","s","e"," ","r","e","w","r","i","t","e"," ","t","h","e"," ",
      "t","a","s","k"," ","b","o","d","y"," ","t","o"," ","f","i","x"," ","a","l","l"," ","v","i",
      "o","l","a","t","i","o","n","s"," ","w","h","i","l","e"," ","p","r","e","s","e","r","v","i",
      "n","g"," ","t","h","e"," ","o","r","i","g","i","n","a","l"," ","i","n","t","e","n","t"," ",
      "a","n","d"," ","i","n","f","o","r","m","a","t","i","o","n","."," ","R","e","t","u","r","n",
      " ","O","N","L","Y"," ","t","h","e"," ","f","i","x","e","d"," ","b","o","d","y"," ","t","e",
      "x","t",","," ","n","o"," ","e","x","p","l","a","n","a","t","i","o","n","s",".">>,
   Fence |->
      <<"x60","x60","x60">>,
   JoinDash |->
      <<"\n","-"," ">>]

\* the validation rules and the sentinel label of executeValidator
RulesText ==
  [Description |->
      <<"D","e","s","c","r","i","p","t","i","o","n">>,
   AcceptanceCriteria |->
      <<"A","c","c","e","p","t","a","n","c","e"," ","C","r","i","t","e","r","i","a">>,
   PriorityPrefix |->
      <<"p","r","i","o","r","i","t","y",":">>,
   AgentValidator |->
      <<"a","g","e","n","t","-","v","a","l","i","d","a","t","o","r">>]

\* bodies, a label and an assignee of the issues the store holds
IssueText ==
  [Https |->
      <<"h","t","t","p","s",":">>,
   Http |->
      <<"h","t","t","p",":">>,
   GithubCom |->
      <<"g","i","t","h","u","b",".","c","o","m">>,
   Enterprise |->
      <<"g","h","e",".","e","x","a","m","p","l","e",".","c","o","m">>,
   Acme |->
      <<"a","c","m","e">>,
   Octo |->
      <<"o","c","t","o">>,
   App |->
      <<"a","p","p">>,
   Web |->
      <<"w","e","b">>,
   IssuesPath |->
      <<"i","s","s","u","e","s">>,
   BodyShort |->
      <<"s","h","o","r","t">>,
   BodyConforming |->
      <<"#","#"," ","D","e","s","c","r","i","p","t","i","o","n","\n","\n","D","e","p","l","o","y"," ",
      "a"," ","m","e","s","h",".","\n","\n","#","#"," ","A","c","c","e","p","t","a","n","c","e"," ","C",
      "r","i","t","e","r","i","a","\n","\n","-"," ","d","e","p","l","o","y","e","d">>,
   PriorityHigh |->
      <<"p","r","i","o","r","i","t","y",":","h","i","g","h">>,
   Bob |->
      <<"b","o","b">>,
   BodyWithNotice |->
      <<"B","e","f","o","r","e","\n","<","!","-","-"," ","xF0","x9F","xA4","x96"," ","A","g","e","n",
      "t"," ","M","o","d","i","f","i","e","d"," ","-","-",">","\n","N","o","t","i","c","e"," ","c","o",
      "n","t","e","n","t","\n","<","!","-","-"," ","/","A","g","e","n","t"," ","M","o","d","i","f","i",
      "e","d"," ","-","-",">","\n","A","f","t","e","r">>]

\* the completions the text-completion service returns
Completions ==
  [Unclosed |->
      <<"x60","x60","x60","\n","a","\n","b">>,
   FencePair |->
      <<"x60","x60","x60","\n","x60","x60","x60">>,
   FencedThenText |->
      <<"x60","x60","x60","\n","a","\n","x60","x60","x60","\n","b">>,
   Padded |->
      <<" ","a","\n">>,
   FixPlain |->
      <<"#","#"," ","D","e","s","c","r","i","p","t","i","o","n","\n","f","i","x","e","d","\n","#","#",
      " ","A","c","c","e","p","t","a","n","c","e"," ","C","r","i","t","e","r","i","a","\n","-"," ","o",
      "k">>,
   FixFenced |->
      <<"x60","x60","x60","m","a","r","k","d","o","w","n","\n","f","i","x","e","d","\n","x60","x60",
      "x60">>,
   Blank |->
      <<" ","\n">>,
   Plain |->
      <<"A","d","d","s"," ","a"," ","m","e","s","h",".">>,
   FencedSummary |->
      <<"x60","x60","x60","\n","S","u","m","m","a","r","y",":"," ","m","e","s","h","\n","x60","x60",
      "x60">>]

\* the agent names and the keywords PluginExecutor.Execute dispatches on
ExecuteText ==
  [validator |->
      <<"v","a","l","i","d","a","t","o","r">>,
   monitor |->
      <<"m","o","n","i","t","o","r">>,
   roaster |->
      <<"r","o","a","s","t","e","r">>,
   codeReview |->
      <<"c","o","d","e"," ","r","e","v","i","e","w">>,
   review |->
      <<"r","e","v","i","e","w">>,
   deployment |->
      <<"d","e","p","l","o","y","m","e","n","t">>,
   executiveSummary |->
      <<"e","x","e","c","u","t","i","v","e"," ","s","u","m","m","a","r","y">>,
   progressReporter |->
      <<"p","r","o","g","r","e","s","s"," ","r","e","p","o","r","t","e","r">>,
   TaskValidator |->
      <<"T","a","s","k"," ","V","a","l","i","d","a","t","o","r">>,
   StaleTaskMonitor |->
      <<"S","t","a","l","e"," ","T","a","s","k"," ","M","o","n","i","t","o","r">>,
   ProductRoaster |->
      <<"P","r","o","d","u","c","t"," ","R","o","a","s","t","e","r">>,
   ExecutiveSummaryGenerator |->
      <<"E","x","e","c","u","t","i","v","e"," ","S","u","m","m","a","r","y"," ","G","e","n","e","r","a",
      "t","o","r">>,
   ProgressReporter |->
      <<"P","r","o","g","r","e","s","s"," ","R","e","p","o","r","t","e","r">>]

\* the keywords and messages of executeGeneric, and two action phrases
GenericText ==
  [ExecutedOk |->
      <<"*","*"," ","e","x","e","c","u","t","e","d"," ","s","u","c","c","e","s","s","f","u","l","l","y",
      ".">>,
   TooShortSummaryPre |->
      <<"T","a","s","k"," ","i","s"," ","t","o","o"," ","s","h","o","r","t"," ","t","o"," ","s","u","m",
      "m","a","r","i","z","e"," ","(">>,
   TooShortSummaryMid |->
      <<" ","c","h","a","r","s",","," ","m","i","n","i","m","u","m"," ">>,
   check |->
      <<"c","h","e","c","k">>,
   length |->
      <<"l","e","n","g","t","h">>,
   long |->
      <<"l","o","n","g">>,
   threshold |->
      <<"t","h","r","e","s","h","o","l","d">>,
   llm |->
      <<"l","l","m">>,
   generate |->
      <<"g","e","n","e","r","a","t","e">>,
   summary |->
      <<"s","u","m","m","a","r","y">>,
   content |->
      <<"c","o","n","t","e","n","t">>,
   text |->
      <<"t","e","x","t">>,
   add |->
      <<"a","d","d">>,
   comment |->
      <<"c","o","m","m","e","n","t">>,
   AddComment |->
      <<"A","d","d"," ","c","o","m","m","e","n","t">>,
   SummaryAdded |->
      <<"S","u","m","m","a","r","y"," ","g","e","n","e","r","a","t","e","d"," ","a","n","d"," ","a","d",
      "d","e","d"," ","a","s"," ","c","o","m","m","e","n","t"," ","t","o"," ","i","s","s","u","e"," ",
      "#">>,
   PluginPre |->
      <<"P","l","u","g","i","n"," ","'">>,
   PluginMid |->
      <<"'"," ","e","x","e","c","u","t","e","d"," ","w","i","t","h"," ">>,
   PluginPost |->
      <<" ","a","c","t","i","o","n","s">>]

\* the string literals of executeLLMAction and addCommentToIssue, and two agent names
LLMActionText ==
  [FenceMarkdown |->
      <<"x60","x60","x60","m","a","r","k","d","o","w","n">>,
   Robot |->
      <<"xF0","x9F","xA4","x96"," ","*","*">>,
   BannerTail |->
      <<"*","*","\n","\n">>,
   SummaryColonU |->
      <<"S","u","m","m","a","r","y",":">>,
   SummaryColonL |->
      <<"s","u","m","m","a","r","y",":">>,
   TaskSummaryHead |->
      <<"#","#"," ","T","a","s","k"," ","S","u","m","m","a","r","y">>,
   ObjectivePre |->
      <<"#","#"," ","T","a","s","k"," ","S","u","m","m","a","r","y","\n","\n","*","*","O","b","j","e",
      "c","t","i","v","e","*","*",":"," ">>,
   ObjectiveU |->
      <<"O","b","j","e","c","t","i","v","e">>,
   ObjectiveL |->
      <<"o","b","j","e","c","t","i","v","e">>,
   CRLF |->
      <<"\r","\n">>,
   NlHash |->
      <<"\n","#","#">>,
   NlNlHash |->
      <<"\n","\n","#","#">>,
   NlStar |->
      <<"\n","*","*">>,
   NlNlStar |->
      <<"\n","\n","*","*">>,
   Nl3Star |->
      <<"\n","\n","\n","*","*">>,
   Nl3 |->
      <<"\n","\n","\n">>,
   Nl2 |->
      <<"\n","\n">>,
   TaskSummaryHeadNl |->
      <<"#","#"," ","T","a","s","k"," ","S","u","m","m","a","r","y","\n","\n">>,
   executive |->
      <<"e","x","e","c","u","t","i","v","e">>,
   progress |->
      <<"p","r","o","g","r","e","s","s">>,
   SprintSummary |->
      <<"S","p","r","i","n","t"," ","S","u","m","m","a","r","y">>,
   ProgressDigest |->
      <<"P","r","o","g","r","e","s","s"," ","D","i","g","e","s","t">>]

\* the name and the action phrases of the Task Summarizer agent
SummarizerText ==
  [Check |->
      <<"C","h","e","c","k"," ","i","f"," ","t","a","s","k"," ","b","o","d","y"," ","i","s"," ","l","o",
      "n","g","e","r"," ","t","h","a","n"," ","t","h","r","e","s","h","o","l","d"," ","(","m","i","n",
      "i","m","u","m"," ","l","e","n","g","t","h"," ","c","h","e","c","k",")">>,
   Generate |->
      <<"G","e","n","e","r","a","t","e"," ","c","o","n","c","i","s","e"," ","s","u","m","m","a","r","y",
      " ","u","s","i","n","g"," ","L","L","M"," ","(","c","a","l","l"," ","L","L","M"," ","w","i","t",
      "h"," ","p","r","o","m","p","t"," ","t","e","m","p","l","a","t","e",")">>,
   Comment |->
      <<"A","d","d"," ","s","u","m","m","a","r","y"," ","a","s"," ","a"," ","c","o","m","m","e","n","t",
      " ","o","n"," ","t","h","e"," ","i","s","s","u","e"," ","(","a","d","d"," ","c","o","m","m","e",
      "n","t"," ","w","i","t","h"," ","g","e","n","e","r","a","t","e","d"," ","c","o","n","t","e","n",
      "t",")">>,
   TaskSummarizer |->
      <<"T","a","s","k"," ","S","u","m","m","a","r","i","z","e","r">>,
   LongTasks |->
      <<"G","e","n","e","r","a","t","e"," ","s","u","m","m","a","r","i","e","s"," ","f","o","r"," ","t",
      "a","s","k","s"," ","l","o","n","g","e","r"," ","t","h","a","n"," ","2","0","0"," ","c","h","a",
      "r","a","c","t","e","r","s">>]

\* the string literals of the two digest generators; Today is time.Now() formatted
DigestText ==
  [Automated |->
      <<"a","u","t","o","m","a","t","e","d">>,
   ExecutiveSummaryLabel |->
      <<"e","x","e","c","u","t","i","v","e","-","s","u","m","m","a","r","y">>,
   ProgressReportLabel |->
      <<"p","r","o","g","r","e","s","s","-","r","e","p","o","r","t">>,
   Report |->
      <<"r","e","p","o","r","t">>,
   Blocked |->
      <<"b","l","o","c","k","e","d">>,
   ExecTitlePre |->
      <<"E","x","e","c","u","t","i","v","e"," ","S","u","m","m","a","r","y"," ","-"," ">>,
   ProgTitlePre |->
      <<"P","r","o","g","r","e","s","s"," ","R","e","p","o","r","t"," ","-"," ">>,
   Today |->
      <<"2","0","2","5","-","0","1","-","1","5">>,
   ExecCreatedPre |->
      <<"E","x","e","c","u","t","i","v","e"," ","s","u","m","m","a","r","y"," ","g","e","n","e","r","a",
      "t","e","d"," ","a","n","d"," ","i","s","s","u","e"," ","#">>,
   ProgCreatedPre |->
      <<"P","r","o","g","r","e","s","s"," ","r","e","p","o","r","t"," ","g","e","n","e","r","a","t","e",
      "d"," ","a","n","d"," ","i","s","s","u","e"," ","#">>,
   CreatedPost |->
      <<" ","c","r","e","a","t","e","d">>,
   ExecNotCreated |->
      <<"E","x","e","c","u","t","i","v","e"," ","s","u","m","m","a","r","y"," ","g","e","n","e","r","a",
      "t","e","d"," ","s","u","c","c","e","s","s","f","u","l","l","y"," ","(","i","s","s","u","e"," ",
      "c","r","e","a","t","i","o","n"," ","f","a","i","l","e","d"," ","o","r"," ","r","e","p","o"," ",
      "n","o","t"," ","d","e","t","e","r","m","i","n","e","d",")">>,
   ProgNotCreated |->
      <<"P","r","o","g","r","e","s","s"," ","r","e","p","o","r","t"," ","g","e","n","e","r","a","t","e",
      "d"," ","s","u","c","c","e","s","s","f","u","l","l","y"," ","(","i","s","s","u","e"," ","c","r",
      "e","a","t","i","o","n"," ","f","a","i","l","e","d"," ","o","r"," ","r","e","p","o"," ","n","o",
      "t"," ","d","e","t","e","r","m","i","n","e","d",")">>]

\* the string literals of executeMonitor
MonitorText ==
  [HeyMid |->
      <<"!"," ","T","h","i","s"," ","t","a","s","k"," ","h","a","s"," ","b","e","e","n"," ","i","n"," ",
      "p","r","o","g","r","e","s","s"," ","f","o","r"," ">>,
   HeyPre |->
      <<"xF0","x9F","x91","x8B"," ","H","e","y"," ","@">>,
   HeyPost |->
      <<" ","d","a","y","s","."," ","C","o","u","l","d"," ","y","o","u"," ","s","h","a","r","e"," ","a",
      " ","q","u","i","c","k"," ","s","t","a","t","u","s"," ","u","p","d","a","t","e","?"," ","T","h",
      "a","n","k","s","!"," ","xF0","x9F","x99","x8F">>,
   MonNameTail |->
      <<"*","*",":"," ">>,
   DaysSuffix |->
      <<" ","d","a","y","s">>,
   IssueHash |->
      <<"I","s","s","u","e"," ","#">>,
   IsStaleCommented |->
      <<" ","i","s"," ","s","t","a","l","e"," ","a","n","d"," ","h","a","s"," ","b","e","e","n"," ","c",
      "o","m","m","e","n","t","e","d">>,
   IsNotStale |->
      <<" ","i","s"," ","n","o","t"," ","s","t","a","l","e">>,
   Checked |->
      <<"C","h","e","c","k","e","d"," ">>,
   IssuesFound |->
      <<" ","i","s","s","u","e","s",","," ","f","o","u","n","d"," ">>,
   StaleCommentedOn |->
      <<" ","s","t","a","l","e",","," ","c","o","m","m","e","n","t","e","d"," ","o","n"," ">>]

\* the string literals of Monitor.handleStaleTask, byte for byte
CliMonitorText ==
  [CliHeyPre |->
      <<"xC4","x9F","xC5","xB8","xE2","x80","x98","xE2","x80","xB9"," ","H","e","y"," ","@">>,
   CliHeyPost |->
      <<" ","d","a","y","s","."," ","C","o","u","l","d"," ","y","o","u"," ","s","h","a","r","e"," ","a",
      " ","q","u","i","c","k"," ","s","t","a","t","u","s"," ","u","p","d","a","t","e","?"," ","T","h",
      "a","n","k","s","!"," ","xC4","x9F","xC5","xB8","xE2","x84","xA2">>,
   CliAgentPrefix |->
      <<"xC4","x9F","xC5","xB8","xC2","xA4","xE2","x80","x93"," ","*","*","A","g","e","n","t","*","*",
      ":"," ">>]

\* the string literals of the agent file parser and the lines of an agent file
TriggerText ==
  [AgentPre |->
      <<"#"," ","A","g","e","n","t",":">>,
   PurposePre |->
      <<"*","*","P","u","r","p","o","s","e","*","*",":">>,
   TypePre |->
      <<"*","*","T","y","p","e","*","*",":">>,
   SectionPre |->
      <<"#","#"," ">>,
   Hashes |->
      <<"#","#">>,
   trigger |->
      <<"t","r","i","g","g","e","r">>,
   triggers |->
      <<"t","r","i","g","g","e","r","s">>,
   EventPre |->
      <<"-"," ","e","v","e","n","t",":">>,
   SchedulePre |->
      <<"-"," ","s","c","h","e","d","u","l","e",":">>,
   ConditionPre |->
      <<"-"," ","c","o","n","d","i","t","i","o","n",":">>,
   ManualPre |->
      <<"-"," ","m","a","n","u","a","l",":">>,
   LabelsPre |->
      <<"-"," ","l","a","b","e","l","s",":">>,
   true |->
      <<"t","r","u","e">>,
   manual |->
      <<"m","a","n","u","a","l">>,
   LineAgent |->
      <<"#"," ","A","g","e","n","t",":"," ","T","a","s","k"," ","S","u","m","m","a","r","i","z","e","r">>,
   LineType |->
      <<"*","*","T","y","p","e","*","*",":"," ","c","u","s","t","o","m">>,
   LineTrigger |->
      <<"#","#"," ","T","r","i","g","g","e","r">>,
   LineGuidelines |->
      <<"#","#"," ","G","u","i","d","e","l","i","n","e","s">>,
   LineGuideline |->
      <<"-"," ","G","e","n","e","r","a","t","e"," ","s","u","m","m","a","r","i","e","s"," ","f","o","r"," ","t","a","s","k","s"," ","l","o","n","g","e","r"," ","t","h","a","n"," ","2","0","0"," ","c","h","a","r","a","c","t","e","r","s">>,
   LineOpened |->
      <<"-"," ","e","v","e","n","t",":"," ","i","s","s","u","e","s",".","o","p","e","n","e","d">>,
   LineEdited |->
      <<"-"," ","e","v","e","n","t",":"," ","i","s","s","u","e","s",".","e","d","i","t","e","d">>,
   LineSchedule |->
      <<"-"," ","s","c","h","e","d","u","l","e",":"," ","\"","0"," ","1","0"," ","*"," ","*"," ","*","\"">>,
   LineManual |->
      <<"-"," ","m","a","n","u","a","l",":"," ","t","r","u","e">>,
   LineLabels |->
      <<"-"," ","l","a","b","e","l","s",":"," ","[","b","u","g",","," ","u","r","g","e","n","t","]">>,
   Opened |->
      <<"i","s","s","u","e","s",".","o","p","e","n","e","d">>,
   Edited |->
      <<"i","s","s","u","e","s",".","e","d","i","t","e","d">>,
   Closed |->
      <<"i","s","s","u","e","s",".","c","l","o","s","e","d">>,
   Bug |->
      <<"b","u","g">>,
   Urgent |->
      <<"u","r","g","e","n","t">>,
   TaskSummarizer |->
      <<"T","a","s","k"," ","S","u","m","m","a","r","i","z","e","r">>]



agentNoticeStart ==
  <<"<","!","-","-"," ","xF0","x9F","xA4","x96"," ","A","g","e","n","t"," ","M","o","d","i","f","i",
  "e","d"," ","-","-",">">>

agentNoticeEnd ==
  <<"<","!","-","-"," ","/","A","g","e","n","t"," ","M","o","d","i","f","i","e","d"," ","-","-",
  ">">>

(***************************************************************************)
(* Go strings package                                                      *)
(***************************************************************************)
\* unicode.ToLower on one ASCII byte
ToLowerChar(c) ==
  CASE c = "A" -> "a" []
       c = "B" -> "b" []
       c = "C" -> "c" []
       c = "D" -> "d" []
       c = "E" -> "e" []
       c = "F" -> "f" []
       c = "G" -> "g" []
       c = "H" -> "h" []
       c = "I" -> "i" []
       c = "J" -> "j" []
       c = "K" -> "k" []
       c = "L" -> "l" []
       c = "M" -> "m" []
       c = "N" -> "n" []
       c = "O" -> "o" []
       c = "P" -> "p" []
       c = "Q" -> "q" []
       c = "R" -> "r" []
       c = "S" -> "s" []
       c = "T" -> "t" []
       c = "U" -> "u" []
       c = "V" -> "v" []
       c = "W" -> "w" []
       c = "X" -> "x" []
       c = "Y" -> "y" []
       c = "Z" -> "z" []
       OTHER -> c

\* strings.ToLower
ToLower(s) == [i \in 1..Len(s) |-> ToLowerChar(s[i])]

\* strings.HasPrefix
HasPrefix(s, p) == Len(s) >= Len(p) /\ SubSeq(s, 1, Len(p)) = p

\* strings.Index, 0-based, -1 when sub does not occur: the least of the
\* offsets at which sub stands in s
Index(s, sub) ==
  CHOOSE r \in {IF hits = {} THEN 0 - 1 ELSE CHOOSE i \in hits : \A j \in hits : i <= j :
                  hits \in {{i \in 0..(Len(s) - Len(sub)) :
                              \A k \in 1..Len(sub) : s[i + k] = sub[k]}}} : TRUE

\* strings.Contains
Contains(s, sub) == Index(s, sub) >= 0

\* s[from:] with a 0-based byte offset
Drop(s, from) == SubSeq(s, from + 1, Len(s))

\* s[:to] with a 0-based byte offset
Take(s, to) == SubSeq(s, 1, to)

RECURSIVE TrimLeftSet(_, _)
\* strings.TrimLeft(s, cutset)
TrimLeftSet(s, cutset) ==
  IF s # <<>> /\ Head(s) \in cutset THEN TrimLeftSet(Tail(s), cutset) ELSE s

RECURSIVE TrimRightSet(_, _)
\* strings.TrimRight(s, cutset)
TrimRightSet(s, cutset) ==
  IF s # <<>> /\ s[Len(s)] \in cutset THEN TrimRightSet(Take(s, Len(s) - 1), cutset) ELSE s

\* the ASCII white space strings.TrimSpace removes
\* strings.TrimSpace
TrimSpace(s) ==
  LET white == {" ", "\n", "\r", "\t"}
  IN TrimRightSet(TrimLeftSet(s, white), white)

RECURSIVE SplitLines(_)
\* strings.Split(s, "\n")
SplitLines(s) ==
  LET i == Index(s, <<"\n">>)
  IN IF i < 0 THEN <<s>> ELSE <<Take(s, i)>> \o SplitLines(Drop(s, i + 1))

RECURSIVE Join(_, _)
\* strings.Join(parts, sep)
Join(parts, sep) ==
  IF parts = <<>> THEN <<>>
  ELSE IF Len(parts) = 1 THEN parts[1]
  ELSE parts[1] \o sep \o Join(Tail(parts), sep)

RECURSIVE ReplaceAll(_, _, _)
\* strings.ReplaceAll(s, old, new) for a non-empty old
ReplaceAll(s, old, new) ==
  LET i == Index(s, old)
  IN IF i < 0 THEN s
     ELSE Take(s, i) \o new \o ReplaceAll(Drop(s, i + Len(old)), old, new)

RECURSIVE Itoa(_)
\* the %d verb of a non-negative int
Itoa(n) ==
  LET digits == <<"0","1","2","3","4","5","6","7","8","9">>
  IN IF n < 10 THEN <<digits[n + 1]>> ELSE Itoa(n \div 10) \o <<digits[(n % 10) + 1]>>

(***************************************************************************)
(* Bounds of the model                                                     *)
(***************************************************************************)
MaxBodyLen == 2

MaxSections == 2

MaxMinLen == 3

MaxLabels == 1

SeqsUpTo(S, n) == UNION {[1..k -> S] : k \in 0..n}

(***************************************************************************)
(* Schema Checker: agent/validator.go checkFormat                          *)
(***************************************************************************)
\* fmt.Sprintf("Description too short (minimum %d characters)", n)
TooShortMsg(n) == ValidatorText.TooShortPre \o Itoa(n) \o ValidatorText.TooShortPost

\* fmt.Sprintf("Missing required section: %s", section)
MissingSectionMsg(section) == ValidatorText.MissingSection \o section

\* fmt.Sprintf("Missing priority label (should start with '%s')", prefix)
MissingLabelMsg(prefix) == ValidatorText.MissingLabelPre \o prefix \o ValidatorText.MissingLabelPost

RECURSIVE MissingSections_CaseSensitive(_, _)
\* a slip that lower-cases the body but not the section name
MissingSections_CaseSensitive(bodyLower, sections) ==
  IF sections = <<>> THEN <<>>
  ELSE (IF ~Contains(bodyLower, Head(sections))
          THEN <<MissingSectionMsg(Head(sections))>>
          ELSE <<>>)
       \o MissingSections_CaseSensitive(bodyLower, Tail(sections))

RECURSIVE MissingSections(_, _)
\* the loop over v.rules.RequiredSections
MissingSections(bodyLower, sections) ==
  IF sections = <<>> THEN <<>>
  ELSE (IF ~Contains(bodyLower, ToLower(Head(sections)))
          THEN <<MissingSectionMsg(Head(sections))>>
          ELSE <<>>)
       \o MissingSections(bodyLower, Tail(sections))

\* the loop over issue.Labels
hasPriorityLabel(labels, prefix) == \E j \in 1..Len(labels) : HasPrefix(labels[j], prefix)

\* a slip that runs the label check before the section loop
checkFormat_LabelFirst(issue, rules) ==
  (IF Len(issue.Body) < rules.MinDescriptionLength
     THEN <<TooShortMsg(rules.MinDescriptionLength)>> ELSE <<>>)
  \o (IF rules.RequireLabels /\ ~hasPriorityLabel(issue.Labels, rules.LabelPrefix)
        THEN <<MissingLabelMsg(rules.LabelPrefix)>> ELSE <<>>)
  \o MissingSections(ToLower(issue.Body), rules.RequiredSections)

checkFormat(issue, rules) ==
  (IF Len(issue.Body) < rules.MinDescriptionLength
     THEN <<TooShortMsg(rules.MinDescriptionLength)>> ELSE <<>>)
  \o MissingSections(ToLower(issue.Body), rules.RequiredSections)
  \o (IF rules.RequireLabels /\ ~hasPriorityLabel(issue.Labels, rules.LabelPrefix)
        THEN <<MissingLabelMsg(rules.LabelPrefix)>> ELSE <<>>)

(***************************************************************************)
(* Specification SpecCheckFormat: checkFormat applied to every issue and   *)
(* rule set within the bounds                                              *)
(***************************************************************************)
\* the variables of the other specifications rest at this value
Idle == [pc |-> "off"]

\* every issue and rule set within the bounds, over a small alphabet
InitCheckFormat ==
  /\ cf \in [pc : {"input"},
             issue : [Body : SeqsUpTo({"d", "D", "a"}, MaxBodyLen),
                      Labels : SeqsUpTo({<<"p", "d">>, <<"d">>}, MaxLabels)],
             rules : [RequiredSections : SeqsUpTo({<<"d">>, <<"D", "a">>, <<"a", "a">>}, MaxSections),
                      MinDescriptionLength : 0..MaxMinLen,
                      RequireLabels : BOOLEAN,
                      LabelPrefix : {<<"p">>, <<>>}],
             out : {<<>>}]
  /\ mg = Idle
  /\ store = <<>>
  /\ run = Idle
  /\ log = <<>>
  /\ gen = Idle

CheckFormatCall ==
  /\ cf.pc = "input"
  /\ cf' = [cf EXCEPT !.pc = "done", !.out = checkFormat(cf.issue, cf.rules)]
  /\ UNCHANGED <<mg, store, run, log, gen>>

SpecCheckFormat == InitCheckFormat /\ [][CheckFormatCall]_vars

\* sec occurs in body when letter case is ignored
OccursIgnoringCase(sec, body) ==
  \E i \in 0..(Len(body) - Len(sec)) :
    \A k \in 1..Len(sec) : ToLowerChar(body[i + k]) = ToLowerChar(sec[k])

\* label begins with prefix
BeginsWith(label, prefix) ==
  /\ Len(label) >= Len(prefix)
  /\ \A k \in 1..Len(prefix) : label[k] = prefix[k]

CfLongEnough == Len(cf.issue.Body) >= cf.rules.MinDescriptionLength

CfAbsent ==
  {k \in 1..Len(cf.rules.RequiredSections) :
     ~OccursIgnoringCase(cf.rules.RequiredSections[k], cf.issue.Body)}

CfLabelOk ==
  \/ ~cf.rules.RequireLabels
  \/ \E j \in 1..Len(cf.issue.Labels) : BeginsWith(cf.issue.Labels[j], cf.rules.LabelPrefix)

\* C4: checkFormat returns the empty list exactly when the body is long
\* enough, every required section occurs in it ignoring case, and a label
\* with the prefix is present or not required.
C4_EmptyIffConforming ==
  cf.pc = "done" =>
    ((cf.out = <<>>) <=> (CfLongEnough /\ CfAbsent = {} /\ CfLabelOk))

\* a conforming issue whose section match needs the case folding
C4_Witness ==
  /\ cf.pc = "done"
  /\ cf.out = <<>>
  /\ cf.rules.RequireLabels
  /\ cf.rules.MinDescriptionLength > 0
  /\ \E k \in 1..Len(cf.rules.RequiredSections) :
       ~Contains(cf.issue.Body, cf.rules.RequiredSections[k])

\* the k-th absent section, in configured order
CfNthAbsent(n) == CHOOSE k \in CfAbsent : Cardinality({j \in CfAbsent : j < k}) = n - 1

CfShortCount == IF CfLongEnough THEN 0 ELSE 1

CfInOrder ==
  /\ Len(cf.out) = CfShortCount + Cardinality(CfAbsent) + (IF CfLabelOk THEN 0 ELSE 1)
  /\ ~CfLongEnough => cf.out[1] = TooShortMsg(cf.rules.MinDescriptionLength)
  /\ \A n \in 1..Cardinality(CfAbsent) :
       cf.out[CfShortCount + n] = MissingSectionMsg(cf.rules.RequiredSections[CfNthAbsent(n)])
  /\ ~CfLabelOk => cf.out[Len(cf.out)] = MissingLabelMsg(cf.rules.LabelPrefix)

CfNoDuplicates == \A p, q \in 1..Len(cf.out) : p # q => cf.out[p] # cf.out[q]

CfSectionsDistinct ==
  \A p, q \in 1..Len(cf.rules.RequiredSections) :
    p # q => cf.rules.RequiredSections[p] # cf.rules.RequiredSections[q]

\* C5 as claimed: the violations come in the order too-short, missing
\* sections in configured order, missing label, and no entry occurs twice.
C5_OrderedNoDuplicates == cf.pc = "done" => (CfInOrder /\ CfNoDuplicates)

\* C5 as amended: the order always holds; no entry occurs twice when the
\* configured required section names are pairwise distinct.
C5_OrderedDistinct ==
  cf.pc = "done" => (CfInOrder /\ (CfSectionsDistinct => CfNoDuplicates))

\* all three kinds of violation reported for two distinct absent sections
C5_Witness ==
  /\ cf.pc = "done"
  /\ Len(cf.out) = 4
  /\ CfSectionsDistinct

(***************************************************************************)
(* Content Merger: agent/validator.go preserveOriginalWithModifications    *)
(***************************************************************************)
MaxPieces == 2

MaxViolations == 2

\* a slip that cuts a notice without end marker off the body
removeExistingAgentNotice_CutMalformed(body, startMarker, endMarker) ==
  LET startIdx == Index(body, startMarker)
      endRel == Index(Drop(body, startIdx), endMarker)
      endIdx == endRel + startIdx + Len(endMarker)
      before == TrimRightSet(Take(body, startIdx), {"\n"})
      after == TrimLeftSet(Drop(body, endIdx), {"\n"})
  IN IF startIdx = 0 - 1 THEN body
     ELSE IF endRel = 0 - 1 THEN before
     ELSE IF before = <<>> THEN after
     ELSE IF after = <<>> THEN before
     ELSE before \o <<"\n", "\n">> \o after

\* removeExistingAgentNotice
removeExistingAgentNotice(body, startMarker, endMarker) ==
  LET startIdx == Index(body, startMarker)
      endRel == Index(Drop(body, startIdx), endMarker)
      endIdx == endRel + startIdx + Len(endMarker)
      before == TrimRightSet(Take(body, startIdx), {"\n"})
      after == TrimLeftSet(Drop(body, endIdx), {"\n"})
  IN IF startIdx = 0 - 1 THEN body
     ELSE IF endRel = 0 - 1 THEN body
     ELSE IF before = <<>> THEN after
     ELSE IF after = <<>> THEN before
     ELSE before \o <<"\n", "\n">> \o after

RECURSIVE violationsList_Reversed(_)
\* a slip that prepends each bullet
violationsList_Reversed(violations) ==
  IF violations = <<>> THEN <<>>
  ELSE violationsList_Reversed(Tail(violations)) \o <<"-", " ">> \o Head(violations) \o <<"\n">>

RECURSIVE violationsList(_)
\* the loop violationsList += fmt.Sprintf("- %s\n", violation)
violationsList(violations) ==
  IF violations = <<>> THEN <<>>
  ELSE <<"-", " ">> \o Head(violations) \o <<"\n">> \o violationsList(Tail(violations))

\* the fmt.Sprintf of the modification notice around its five arguments
modificationNotice(startMarker, vlist, endMarker, fixedBody, cleanedOriginal) ==
  startMarker \o ValidatorText.NoticeHead \o vlist \o ValidatorText.NoticeTail \o endMarker
  \o ValidatorText.Sep \o fixedBody \o ValidatorText.OrigHead \o cleanedOriginal \o ValidatorText.OrigTail

preserveOriginalWithModifications(originalBody, fixedBody, violations) ==
  LET cleanedOriginal == removeExistingAgentNotice(originalBody, agentNoticeStart, agentNoticeEnd)
  IN modificationNotice(agentNoticeStart, violationsList(violations), agentNoticeEnd,
                        fixedBody, cleanedOriginal)

(***************************************************************************)
(* Specification SpecMerge: the merger applied once and then again to its  *)
(* own output                                                              *)
(***************************************************************************)
MgPieces == {<<"o">>, <<"\n">>, agentNoticeStart, agentNoticeEnd}

RECURSIVE Concat(_)
Concat(parts) == IF parts = <<>> THEN <<>> ELSE Head(parts) \o Concat(Tail(parts))

\* bodies built from the pieces, and a body with a notice in its middle
InitMerge ==
  /\ mg \in [pc : {"input"},
             orig : {Concat(ps) : ps \in SeqsUpTo(MgPieces, MaxPieces)} \cup {IssueText.BodyWithNotice},
             fixA : {<<"f">>, <<"g", "\n", "g">>},
             fixB : {<<"f">>, <<"g", "\n", "g">>},
             vA : SeqsUpTo({<<"v">>, <<"w">>}, MaxViolations),
             vB : SeqsUpTo({<<"v">>, <<"w">>}, MaxViolations),
             once : {<<>>}, twice : {<<>>}]
  /\ cf = Idle
  /\ store = <<>>
  /\ run = Idle
  /\ log = <<>>
  /\ gen = Idle

\* merge(orig, fixA, vA)
MergeOnce ==
  /\ mg.pc = "input"
  /\ mg' = [mg EXCEPT !.pc = "once",
                      !.once = preserveOriginalWithModifications(mg.orig, mg.fixA, mg.vA)]
  /\ UNCHANGED <<cf, store, run, log, gen>>

\* merge(merge(orig, fixA, vA), fixB, vB)
MergeTwice ==
  /\ mg.pc = "once"
  /\ mg' = [mg EXCEPT !.pc = "twice",
                      !.twice = preserveOriginalWithModifications(mg.once, mg.fixB, mg.vB)]
  /\ UNCHANGED <<cf, store, run, log, gen>>

SpecMerge == InitMerge /\ [][MergeOnce \/ MergeTwice]_vars

\* number of places at which sub occurs in s
Occurrences(s, sub) ==
  Cardinality({i \in 0..(Len(s) - Len(sub)) : SubSeq(s, i + 1, i + Len(sub)) = sub})

\* the text of the first preserved-original section of a merged body
PreservedSection(body) ==
  LET from == Index(body, ValidatorText.OrigHead) + Len(ValidatorText.OrigHead)
  IN SubSeq(body, from + 1, Len(body) - Len(ValidatorText.OrigTail))

\* C3: the second merge holds exactly one notice block, which lists vB, and
\* its preserved-original section is exactly orig.
C3_MergeIdempotent ==
  mg.pc = "twice" =>
    /\ Occurrences(mg.twice, agentNoticeStart) = 1
    /\ Occurrences(mg.twice, agentNoticeEnd) = 1
    /\ HasPrefix(mg.twice, agentNoticeStart \o ValidatorText.NoticeHead \o violationsList(mg.vB)
                           \o ValidatorText.NoticeTail \o agentNoticeEnd)
    /\ PreservedSection(mg.twice) = mg.orig


(***************************************************************************)
(* Specification SpecNotice: removeExistingAgentNotice on one body         *)
(***************************************************************************)
MaxNoticePieces == 4

\* bodies built from text, newlines and the two markers
InitNotice ==
  /\ mg \in [pc : {"input"}, body : {Concat(ps) : ps \in SeqsUpTo(MgPieces, MaxNoticePieces)}, out : {<<>>}]
  /\ cf = Idle
  /\ store = <<>>
  /\ run = Idle
  /\ log = <<>>
  /\ gen = Idle

\* removeExistingAgentNotice(body, start marker, end marker)
RemoveNoticeCall ==
  /\ mg.pc = "input"
  /\ mg' = [mg EXCEPT !.pc = "done",
                      !.out = removeExistingAgentNotice(mg.body, agentNoticeStart, agentNoticeEnd)]
  /\ UNCHANGED <<cf, store, run, log, gen>>

SpecNotice == InitNotice /\ [][RemoveNoticeCall]_vars

\* sub stands in s at the 0-based offset i
StandsAt(s, sub, i) ==
  /\ i + Len(sub) <= Len(s)
  /\ \A k \in 1..Len(sub) : s[i + k] = sub[k]

\* the offsets of the start marker in b
NtStarts(b) == {i \in 0..Len(b) : StandsAt(b, agentNoticeStart, i)}

\* the offsets at or after i of the end marker in b
NtEnds(b, i) == {j \in i..Len(b) : StandsAt(b, agentNoticeEnd, j)}

\* the least member of a non-empty set of offsets
FirstOf(offsets) == CHOOSE i \in offsets : \A j \in offsets : i <= j

\* s without the newlines at its end
WithoutTrailingNewlines(s) ==
  SubSeq(s, 1, CHOOSE n \in 0..Len(s) :
                 /\ n = 0 \/ s[n] # "\n"
                 /\ \A k \in (n + 1)..Len(s) : s[k] = "\n")

\* s without the newlines at its start
WithoutLeadingNewlines(s) ==
  SubSeq(s, CHOOSE m \in 1..(Len(s) + 1) :
              /\ m = Len(s) + 1 \/ s[m] # "\n"
              /\ \A k \in 1..(m - 1) : s[k] = "\n", Len(s))

\* b without the block from offset i up to offset j: the trailing text when
\* nothing precedes the block, the leading text when nothing follows it,
\* and leading text, one blank line, trailing text otherwise
WithoutBlock(b, i, j) ==
  CHOOSE r \in {IF leading = <<>> THEN trailing
                ELSE IF trailing = <<>> THEN leading
                ELSE leading \o <<"\n", "\n">> \o trailing :
                  leading \in {WithoutTrailingNewlines(SubSeq(b, 1, i))},
                  trailing \in {WithoutLeadingNewlines(SubSeq(b, j + 1, Len(b)))}} : TRUE

\* b without the block that begins at the start marker at offset i: b
\* itself when no end marker follows
WithoutBlockAt(b, i) ==
  CHOOSE r \in {IF ends = {} THEN b
                ELSE WithoutBlock(b, i, FirstOf(ends) + Len(agentNoticeEnd)) :
                  ends \in {NtEnds(b, i)}} : TRUE

\* b without its first start-marker..end-marker block: b itself when there
\* is no start marker
CleanedBody(b) ==
  CHOOSE r \in {IF starts = {} THEN b ELSE WithoutBlockAt(b, FirstOf(starts)) :
                  starts \in {NtStarts(b)}} : TRUE

\* C11: removeExistingAgentNotice returns a body without start marker, or
\* with a start marker and no end marker after it, unchanged; otherwise it
\* removes the first start-marker..end-marker block: only the trailing text
\* when nothing precedes the block, only the leading text when nothing
\* follows it, and leading text, one blank line, trailing text otherwise.
C11_RemoveNotice == mg.pc = "done" => mg.out = CleanedBody(mg.body)

\* a notice between two pieces of text is replaced by one blank line
C11_Witness ==
  /\ mg.pc = "done"
  /\ mg.body = <<"o">> \o agentNoticeStart \o agentNoticeEnd \o <<"o">>
  /\ mg.out = <<"o", "\n", "\n", "o">>

(***************************************************************************)
(* The layout of a merged body                                             *)
(***************************************************************************)
\* one "- violation" line per entry, in the order of vs
BulletLines(vs) == Concat([k \in 1..Len(vs) |-> <<"-", " ">> \o vs[k] \o <<"\n">>])

\* start marker, notice with the bullets, end marker, separator, fixed body,
\* separator, preserved-original section around the cleaned original
MergedLayout(orig, fixed, vs) ==
  agentNoticeStart \o ValidatorText.NoticeHead \o BulletLines(vs) \o ValidatorText.NoticeTail \o agentNoticeEnd
    \o ValidatorText.Sep \o fixed \o ValidatorText.OrigHead \o CleanedBody(orig) \o ValidatorText.OrigTail

NumIssues == 2

\* the rule set of plugins/executor.go executeValidator and config.Load
DefaultRules ==
  [RequiredSections |-> <<RulesText.Description, RulesText.AcceptanceCriteria>>,
   MinDescriptionLength |-> 50,
   RequireLabels |-> TRUE,
   LabelPrefix |-> RulesText.PriorityPrefix]

\* one call of a collaborator, or one run of the Schema Checker, on an issue
Event(op, n, ok) == [op |-> op, issue |-> n, ok |-> ok]

\* the clean-up of the completion at the end of fixWithLLM
cleanFixedBody(raw) ==
  LET trimmed == TrimSpace(raw)
      lines == SplitLines(trimmed)
  IN IF HasPrefix(trimmed, ValidatorText.Fence) /\ Len(lines) > 2
       THEN Join(SubSeq(lines, 2, Len(lines) - 1), <<"\n">>)
       ELSE trimmed

\* the comment ValidateAndFix posts after a fix
fixComment(violations) == ValidatorText.FixComment \o Join(violations, ValidatorText.JoinDash)

\* Client.UpdateIssue with a nil title
UpdateIssue(st, n, body) == [st EXCEPT ![n].Body = body]

\* Client.AddComment
AddComment(st, n, comment) == [st EXCEPT ![n].Comments = Append(@, comment)]

\* the value ValidateAndFix returns, with the store and the log it leaves
VfReturn(st, lg, valid, comment, err) ==
  [store |-> st, log |-> lg, valid |-> valid, comment |-> comment, err |-> err]

\* a slip that asks the model a second time when the first call fails
fixAndPersist_Retry(issue, violations, st, lg, o) ==
  LET n == issue.Number
      lg2 == Append(lg, Event("Prompt", n, o.llmOk))
      lg3 == Append(lg2, Event("UpdateIssue", n, o.updOk))
      lg4 == Append(lg3, Event("AddComment", n, o.comOk))
      st3 == UpdateIssue(st, n, preserveOriginalWithModifications(
                                  issue.Body, cleanFixedBody(o.raw), violations))
  IN IF ~o.llmOk THEN VfReturn(st, Append(lg2, Event("Prompt", n, FALSE)), FALSE, <<>>, "llm")
     ELSE IF ~o.updOk THEN VfReturn(st, lg3, FALSE, <<>>, "update")
     ELSE VfReturn(IF o.comOk THEN AddComment(st3, n, fixComment(violations)) ELSE st3,
                   lg4, FALSE, fixComment(violations), "nil")

\* a slip that posts the comment before it persists the body
fixAndPersist_CommentFirst(issue, violations, st, lg, o) ==
  LET n == issue.Number
      lg2 == Append(lg, Event("Prompt", n, o.llmOk))
      lg3 == Append(lg2, Event("AddComment", n, o.comOk))
      lg4 == Append(lg3, Event("UpdateIssue", n, o.updOk))
      st3 == IF o.comOk THEN AddComment(st, n, fixComment(violations)) ELSE st
  IN IF ~o.llmOk THEN VfReturn(st, lg2, FALSE, <<>>, "llm")
     ELSE IF ~o.updOk THEN VfReturn(st3, lg4, FALSE, <<>>, "update")
     ELSE VfReturn(UpdateIssue(st3, n, preserveOriginalWithModifications(
                                         issue.Body, cleanFixedBody(o.raw), violations)),
                   lg4, FALSE, fixComment(violations), "nil")

\* ValidateAndFix after a non-empty check: fixWithLLM, the merge, UpdateIssue
\* and AddComment
fixAndPersist(issue, violations, st, lg, o) ==
  LET n == issue.Number
      lg2 == Append(lg, Event("Prompt", n, o.llmOk))
      lg3 == Append(lg2, Event("UpdateIssue", n, o.updOk))
      lg4 == Append(lg3, Event("AddComment", n, o.comOk))
      st3 == UpdateIssue(st, n, preserveOriginalWithModifications(
                                  issue.Body, cleanFixedBody(o.raw), violations))
  IN IF ~o.llmOk THEN VfReturn(st, lg2, FALSE, <<>>, "llm")
     ELSE IF ~o.updOk THEN VfReturn(st, lg3, FALSE, <<>>, "update")
     ELSE VfReturn(IF o.comOk THEN AddComment(st3, n, fixComment(violations)) ELSE st3,
                   lg4, FALSE, fixComment(violations), "nil")

\* a slip that drops the early return for a conforming issue
ValidateAndFix_NoEarlyReturn(issue, rules, st, lg, o) ==
  CHOOSE r \in {fixAndPersist(issue, violations, st,
                              Append(lg, Event("checkFormat", issue.Number, TRUE)), o) :
                   violations \in {checkFormat(issue, rules)}} : TRUE

\* ValidateAndFix on one issue; o holds the outcomes of the collaborators:
\* o.llmOk and o.raw of llmClient.Prompt, o.updOk of UpdateIssue, o.comOk of
\* AddComment.  The violation list is computed once and bound.
ValidateAndFix(issue, rules, st, lg, o) ==
  CHOOSE r \in {IF violations = <<>>
                  THEN VfReturn(st, Append(lg, Event("checkFormat", issue.Number, TRUE)),
                                TRUE, <<>>, "nil")
                  ELSE fixAndPersist(issue, violations, st,
                                     Append(lg, Event("checkFormat", issue.Number, TRUE)), o) :
                   violations \in {checkFormat(issue, rules)}} : TRUE

\* the label loop of executeValidator
hasValidatorLabel(labels) == \E j \in 1..Len(labels) : labels[j] = RulesText.AgentValidator

\* a slip that reports the label added and writes nothing
AddLabel_Dropped(st, n, label, ok) == st

\* Client.AddLabel: reads the issue, returns when the label is present,
\* otherwise writes the existing labels plus the new one
AddLabel(st, n, label, ok) ==
  IF ~ok THEN st
  ELSE IF \E j \in 1..Len(st[n].Labels) : st[n].Labels[j] = label THEN st
  ELSE [st EXCEPT ![n].Labels = Append(@, label)]

\* Client.ListIssues: the open issues as the caller sees them
ListIssues(st) == [n \in 1..Len(st) |-> [Number |-> n, Body |-> st[n].Body, Labels |-> st[n].Labels]]

\* Client.GetIssue
GetIssue(st, n) == [Number |-> n, Body |-> st[n].Body, Labels |-> st[n].Labels]

(***************************************************************************)
(* Specification SpecBatch: one validation run over the issue store, by    *)
(* the plugin Task Validator (executeValidator) or by the CLI validate     *)
(* mode (runValidate)                                                      *)
(***************************************************************************)
\* the open issues a run may find: one that breaks every rule, one that
\* lacks only the priority label, and one that conforms; the first and the
\* last also as already carrying the sentinel label
BatchIssues ==
  {[Body |-> IssueText.BodyShort, Labels |-> <<>>],
   [Body |-> IssueText.BodyShort, Labels |-> <<IssueText.PriorityHigh, RulesText.AgentValidator>>],
   [Body |-> IssueText.BodyConforming, Labels |-> <<>>],
   [Body |-> IssueText.BodyConforming, Labels |-> <<IssueText.PriorityHigh>>],
   [Body |-> IssueText.BodyConforming, Labels |-> <<IssueText.PriorityHigh, RulesText.AgentValidator>>]}

\* the outcomes of the collaborators' calls in one ValidateAndFix; the outcome
\* of a call that an earlier failure prevents is not drawn
Outcomes ==
  {o \in [llmOk : BOOLEAN, raw : {Completions.FixPlain, Completions.FixFenced}, updOk : BOOLEAN, comOk : BOOLEAN] :
     /\ o.llmOk \/ (o.raw = Completions.FixPlain /\ ~o.updOk)
     /\ o.updOk \/ ~o.comOk}

\* the outcomes of Client.GetIssue(n): an error or the issue, and always an
\* error when the store holds no issue n
GetIssueOutcomes(st, n) == IF n \in 1..Len(st) THEN BOOLEAN ELSE {FALSE}

RunStart(mode, param) ==
  [pc |-> "idle", mode |-> mode, param |-> param, all |-> <<>>, toValidate |-> <<>>, i |-> 1,
   validatedCount |-> 0, fixedCount |-> 0, errors |-> <<>>, rets |-> <<>>,
   result |-> [status |-> "none"], err |-> FALSE]

InitBatch ==
  /\ \E found \in [1..NumIssues -> BatchIssues] :
       store = [n \in 1..NumIssues |->
                  [Body |-> found[n].Body, Labels |-> found[n].Labels, Comments |-> <<>>]]
  /\ \E mode \in {"plugin", "cli"}, param \in 0..(NumIssues + 1) : run = RunStart(mode, param)
  /\ log = <<>>
  /\ cf = Idle
  /\ mg = Idle
  /\ gen = Idle

\* what ValidateAndFix was given and what it returned, with the part of the
\* log its calls fill
RetOf(issue, r) ==
  [issue |-> issue.Number, input |-> issue, valid |-> r.valid, comment |-> r.comment,
   err |-> r.err, from |-> Len(log), to |-> Len(r.log), changed |-> (r.store # store)]

\* a slip that sends every listed issue to the validator
ExecuteValidatorStart_NoFilter ==
  /\ run.pc = "idle"
  /\ run.mode = "plugin"
  /\ \E getOk \in GetIssueOutcomes(store, run.param), listOk \in BOOLEAN :
       LET wantsIssue == run.param > 0
           lg1 == IF wantsIssue THEN Append(log, Event("GetIssue", run.param, getOk)) ELSE log
           lg2 == Append(lg1, Event("ListIssues", 0, listOk))
           allIssues == ListIssues(store)
       IN IF wantsIssue /\ ~getOk
            THEN /\ run' = [run EXCEPT !.pc = "returned", !.err = TRUE]
                 /\ log' = lg1
          ELSE IF ~listOk
            THEN /\ run' = [run EXCEPT !.pc = "returned", !.err = TRUE]
                 /\ log' = lg2
          ELSE /\ run' = [run EXCEPT !.pc = "loop", !.all = allIssues, !.toValidate = allIssues]
               /\ log' = lg2
  /\ UNCHANGED <<store, cf, mg, gen>>

ExecuteValidatorStart_OnlyRequested ==
  /\ run.pc = "idle"
  /\ run.mode = "plugin"
  /\ \E getOk \in GetIssueOutcomes(store, run.param), listOk \in BOOLEAN :
       LET wantsIssue == run.param > 0
           lg1 == IF wantsIssue THEN Append(log, Event("GetIssue", run.param, getOk)) ELSE log
           lg2 == Append(lg1, Event("ListIssues", 0, listOk))
           allIssues == ListIssues(store)
           issuesToValidate ==
             SelectSeq(allIssues, LAMBDA issue : /\ ~hasValidatorLabel(issue.Labels)
                                                 /\ wantsIssue => issue.Number = run.param)
       IN IF wantsIssue /\ ~getOk
            THEN /\ run' = [run EXCEPT !.pc = "returned", !.err = TRUE]
                 /\ log' = lg1
          ELSE IF ~listOk
            THEN /\ run' = [run EXCEPT !.pc = "returned", !.err = TRUE]
                 /\ log' = lg2
          ELSE IF issuesToValidate = <<>>
            THEN /\ run' = [run EXCEPT !.pc = "returned", !.all = allIssues,
                              !.result = [status |-> "completed",
                                          total_issues |-> Len(allIssues),
                                          validated_count |-> 0,
                                          skipped_count |-> Len(allIssues)]]
                 /\ log' = lg2
          ELSE /\ run' = [run EXCEPT !.pc = "loop", !.all = allIssues,
                            !.toValidate = issuesToValidate]
               /\ log' = lg2
  /\ UNCHANGED <<store, cf, mg, gen>>

\* executeValidator up to its loop: the optional GetIssue of the requested
\* issue, ListIssues("open"), the filter on the sentinel label and the early
\* return when nothing is left to validate
ExecuteValidatorStart ==
  /\ run.pc = "idle"
  /\ run.mode = "plugin"
  /\ \E getOk \in GetIssueOutcomes(store, run.param), listOk \in BOOLEAN :
       LET wantsIssue == run.param > 0
           lg1 == IF wantsIssue THEN Append(log, Event("GetIssue", run.param, getOk)) ELSE log
           lg2 == Append(lg1, Event("ListIssues", 0, listOk))
           allIssues == ListIssues(store)
           issuesToValidate == SelectSeq(allIssues, LAMBDA issue : ~hasValidatorLabel(issue.Labels))
       IN IF wantsIssue /\ ~getOk
            THEN /\ run' = [run EXCEPT !.pc = "returned", !.err = TRUE]
                 /\ log' = lg1
          ELSE IF ~listOk
            THEN /\ run' = [run EXCEPT !.pc = "returned", !.err = TRUE]
                 /\ log' = lg2
          ELSE IF issuesToValidate = <<>>
            THEN /\ run' = [run EXCEPT !.pc = "returned", !.all = allIssues,
                              !.result = [status |-> "completed",
                                          total_issues |-> Len(allIssues),
                                          validated_count |-> 0,
                                          skipped_count |-> Len(allIssues)]]
                 /\ log' = lg2
          ELSE /\ run' = [run EXCEPT !.pc = "loop", !.all = allIssues,
                            !.toValidate = issuesToValidate]
               /\ log' = lg2
  /\ UNCHANGED <<store, cf, mg, gen>>

\* a slip that returns the first per-issue error to the caller
ExecuteValidatorIssue_Abort ==
  /\ run.pc = "loop"
  /\ run.mode = "plugin"
  /\ \E o \in Outcomes :
       LET issue == run.toValidate[run.i]
           pcNext == IF run.i = Len(run.toValidate) THEN "finish" ELSE "loop"
       IN \E r \in {ValidateAndFix(issue, DefaultRules, store, log, o)} :
          IF r.err # "nil"
            THEN /\ run' = [run EXCEPT !.pc = "returned", !.err = TRUE,
                              !.rets = Append(@, RetOf(issue, r))]
                 /\ store' = r.store
                 /\ log' = r.log
            ELSE \E labelOk \in BOOLEAN :
                 /\ run' = [run EXCEPT !.pc = pcNext, !.i = @ + 1,
                              !.validatedCount = @ + 1,
                              !.fixedCount = @ + (IF r.valid THEN 0 ELSE 1),
                              !.rets = Append(@, RetOf(issue, r))]
                 /\ store' = AddLabel(r.store, issue.Number, RulesText.AgentValidator, labelOk)
                 /\ log' = Append(r.log, Event("AddLabel", issue.Number, labelOk))
  /\ UNCHANGED <<cf, mg, gen>>

\* one iteration of the loop of executeValidator: ValidateAndFix, then
\* AddLabel of the sentinel unless ValidateAndFix failed
ExecuteValidatorIssue ==
  /\ run.pc = "loop"
  /\ run.mode = "plugin"
  /\ \E o \in Outcomes :
       LET issue == run.toValidate[run.i]
           pcNext == IF run.i = Len(run.toValidate) THEN "finish" ELSE "loop"
       IN \E r \in {ValidateAndFix(issue, DefaultRules, store, log, o)} :
          IF r.err # "nil"
            THEN /\ run' = [run EXCEPT !.pc = pcNext, !.i = @ + 1,
                              !.errors = Append(@, [issue |-> issue.Number, err |-> r.err]),
                              !.rets = Append(@, RetOf(issue, r))]
                 /\ store' = r.store
                 /\ log' = r.log
            ELSE \E labelOk \in BOOLEAN :
                 /\ run' = [run EXCEPT !.pc = pcNext, !.i = @ + 1,
                              !.validatedCount = @ + 1,
                              !.fixedCount = @ + (IF r.valid THEN 0 ELSE 1),
                              !.rets = Append(@, RetOf(issue, r))]
                 /\ store' = AddLabel(r.store, issue.Number, RulesText.AgentValidator, labelOk)
                 /\ log' = Append(r.log, Event("AddLabel", issue.Number, labelOk))
  /\ UNCHANGED <<cf, mg, gen>>

\* the result map executeValidator builds after its loop
ExecuteValidatorReturn ==
  /\ run.pc = "finish"
  /\ run.mode = "plugin"
  /\ run' = [run EXCEPT !.pc = "returned",
               !.result = [status |-> "completed",
                           total_issues |-> Len(run.all),
                           validated_count |-> run.validatedCount,
                           fixed_count |-> run.fixedCount,
                           skipped_count |-> Len(run.all) - run.validatedCount,
                           errors |-> run.errors,
                           error_count |-> Len(run.errors)]]
  /\ UNCHANGED <<store, log, cf, mg, gen>>

\* runValidate with an issue number, repo mode: GetIssue, then ValidateAndFix
RunValidateOne ==
  /\ run.pc = "idle"
  /\ run.mode = "cli"
  /\ run.param > 0
  /\ \E getOk \in GetIssueOutcomes(store, run.param) :
       IF ~getOk
         THEN /\ run' = [run EXCEPT !.pc = "returned", !.err = TRUE]
              /\ log' = Append(log, Event("GetIssue", run.param, FALSE))
              /\ store' = store
         ELSE \E o \in Outcomes :
              \E r \in {ValidateAndFix(GetIssue(store, run.param), DefaultRules, store,
                                        Append(log, Event("GetIssue", run.param, TRUE)), o)} :
                /\ run' = [run EXCEPT !.pc = "returned", !.err = (r.err # "nil"),
                             !.rets = Append(@, [RetOf(GetIssue(store, run.param), r)
                                                   EXCEPT !.from = Len(log) + 1])]
                /\ log' = r.log
                /\ store' = r.store
  /\ UNCHANGED <<cf, mg, gen>>

\* runValidate without an issue number: ListIssues("open")
RunValidateStart ==
  /\ run.pc = "idle"
  /\ run.mode = "cli"
  /\ run.param = 0
  /\ \E listOk \in BOOLEAN :
       /\ log' = Append(log, Event("ListIssues", 0, listOk))
       /\ run' = IF listOk
                   THEN [run EXCEPT !.pc = "loop", !.all = ListIssues(store),
                                    !.toValidate = ListIssues(store)]
                   ELSE [run EXCEPT !.pc = "returned", !.err = TRUE]
  /\ UNCHANGED <<store, cf, mg, gen>>

\* one iteration of the loop of runValidate over the open issues
RunValidateIssue ==
  /\ run.pc = "loop"
  /\ run.mode = "cli"
  /\ \E o \in Outcomes :
       LET issue == run.toValidate[run.i]
       IN \E r \in {ValidateAndFix(issue, DefaultRules, store, log, o)} :
          /\ run' = [run EXCEPT !.pc = IF run.i = Len(run.toValidate) THEN "returned" ELSE "loop",
                       !.i = @ + 1,
                       !.fixedCount = @ + (IF r.err = "nil" /\ ~r.valid THEN 1 ELSE 0),
                       !.rets = Append(@, RetOf(issue, r))]
          /\ store' = r.store
          /\ log' = r.log
  /\ UNCHANGED <<cf, mg, gen>>

NextBatch ==
  \/ ExecuteValidatorStart
  \/ ExecuteValidatorIssue
  \/ ExecuteValidatorReturn
  \/ RunValidateOne
  \/ RunValidateStart
  \/ RunValidateIssue

SpecBatch == InitBatch /\ [][NextBatch]_vars

(***************************************************************************)
(* The plugin Task Validator invoked again on the store it left            *)
(***************************************************************************)
InitRepeat == InitBatch /\ run.mode = "plugin"

\* the caller invokes the Task Validator once more, with the parameters of
\* the first call, when that call has returned a result without errors and
\* none of its add-label calls failed
ExecuteValidatorAgain ==
  /\ run.pc = "returned"
  /\ run.mode = "plugin"
  /\ ~run.err
  /\ run.errors = <<>>
  /\ \A k \in 1..Len(log) : log[k].op # "Execute" /\ ~(log[k].op = "AddLabel" /\ ~log[k].ok)
  /\ log' = Append(log, Event("Execute", 0, TRUE))
  /\ run' = RunStart(run.mode, run.param)
  /\ UNCHANGED <<store, cf, mg, gen>>

SpecRepeat ==
  /\ InitRepeat
  /\ [][\/ ExecuteValidatorStart
         \/ ExecuteValidatorIssue
         \/ ExecuteValidatorReturn
         \/ ExecuteValidatorAgain]_vars

\* positions of the log at which one of ops was done for issue n
LoggedFor(n, ops) == {k \in 1..Len(log) : log[k].issue = n /\ log[k].op \in ops}

\* issue n carried the sentinel label when the run listed the open issues
ListedWithSentinel(n) ==
  \E k \in 1..Len(run.all) :
    /\ run.all[k].Number = n
    /\ \E j \in 1..Len(run.all[k].Labels) : run.all[k].Labels[j] = RulesText.AgentValidator

\* issue n carries the sentinel label in the store now
CarriesSentinel(n) == \E j \in 1..Len(store[n].Labels) : store[n].Labels[j] = RulesText.AgentValidator

\* C1: in a run over all open issues, by the plugin batch or by the CLI
\* validate-all mode, an issue listed with the sentinel label is never
\* checked, never sent to text-completion, never updated and never commented.
C1_SentinelNeverRevalidated ==
  \A n \in 1..NumIssues :
    ListedWithSentinel(n) =>
      LoggedFor(n, {"checkFormat", "Prompt", "UpdateIssue", "AddComment"}) = {}

BatchDone == run.pc = "returned" /\ run.mode = "plugin" /\ ~run.err

\* ValidateAndFix returned without error for issue n and the label was added
ValidatedAndLabelled(n) ==
  /\ \E k \in 1..Len(run.rets) : run.rets[k].issue = n /\ run.rets[k].err = "nil"
  /\ \E k \in 1..Len(log) : log[k] = Event("AddLabel", n, TRUE)

BatchEvaluatesUnlabelled ==
  \A n \in 1..NumIssues :
    Cardinality(LoggedFor(n, {"checkFormat"})) = IF ListedWithSentinel(n) THEN 0 ELSE 1

BatchCountsAddUp == run.result.validated_count + run.result.skipped_count = NumIssues

NoAddLabelFailed == \A k \in 1..Len(log) : ~(log[k].op = "AddLabel" /\ ~log[k].ok)

\* C2 as claimed: exactly the unlabelled issues are evaluated, all issues
\* carry the sentinel at the end unless an add-label call failed, and
\* validated_count + skipped_count is the number of open issues.
C2_BatchAllLabelled ==
  BatchDone =>
    /\ BatchEvaluatesUnlabelled
    /\ NoAddLabelFailed => \A n \in 1..NumIssues : CarriesSentinel(n)
    /\ BatchCountsAddUp

\* C2 as amended: an issue carries the sentinel at the end exactly when it
\* was listed with it or its ValidateAndFix returned no error and its
\* add-label call succeeded; an issue whose ValidateAndFix failed stays
\* unlabelled.
C2_BatchLabelledUnlessFailed ==
  BatchDone =>
    /\ BatchEvaluatesUnlabelled
    /\ \A n \in 1..NumIssues :
         CarriesSentinel(n) <=> (ListedWithSentinel(n) \/ ValidatedAndLabelled(n))
    /\ BatchCountsAddUp

\* a finished batch that skipped a labelled issue, fixed an unlabelled one
\* and left every issue labelled
C2_Witness ==
  /\ BatchDone
  /\ \E n \in 1..NumIssues : ListedWithSentinel(n)
  /\ run.fixedCount > 0
  /\ \A n \in 1..NumIssues : CarriesSentinel(n)

\* the issue satisfies the default rule set
Conforming(issue) ==
  /\ Len(issue.Body) >= 50
  /\ \E j \in 1..Len(issue.Labels) : BeginsWith(issue.Labels[j], RulesText.PriorityPrefix)
  /\ OccursIgnoringCase(RulesText.Description, issue.Body)
  /\ OccursIgnoringCase(RulesText.AcceptanceCriteria, issue.Body)

\* the log entries written during the k-th ValidateAndFix call
CallsOf(k) == {log[j] : j \in (run.rets[k].from + 1)..run.rets[k].to}

CollaboratorOps == {"Prompt", "UpdateIssue", "AddComment", "AddLabel", "GetIssue", "ListIssues"}

\* C6: ValidateAndFix on an issue without violations returns (true, "", nil)
\* and calls neither text-completion nor the issue store.
C6_ValidIssueNoCalls ==
  \A k \in 1..Len(run.rets) :
    Conforming(run.rets[k].input) =>
      /\ run.rets[k].valid
      /\ run.rets[k].comment = <<>>
      /\ run.rets[k].err = "nil"
      /\ ~run.rets[k].changed
      /\ \A e \in CallsOf(k) : e.op \notin CollaboratorOps

C6_Witness ==
  \E k \in 1..Len(run.rets) : Conforming(run.rets[k].input) /\ run.rets[k].valid

\* C7: when text-completion fails, ValidateAndFix returns an error, has
\* called text-completion once, and has neither updated nor commented.
C7_LlmFailureLeavesIssue ==
  \A k \in 1..Len(run.rets) :
    (\E e \in CallsOf(k) : e.op = "Prompt" /\ ~e.ok) =>
      /\ run.rets[k].err # "nil"
      /\ Cardinality({j \in (run.rets[k].from + 1)..run.rets[k].to : log[j].op = "Prompt"}) = 1
      /\ \A e \in CallsOf(k) : e.op \notin {"UpdateIssue", "AddComment"}
      /\ ~run.rets[k].changed

C7_Witness ==
  \E k \in 1..Len(run.rets) :
    /\ run.rets[k].err = "llm"
    /\ Event("Prompt", run.rets[k].issue, FALSE) \in CallsOf(k)

\* C8: a per-issue failure is recorded in the error list and the batch goes
\* on: every issue to validate is still evaluated and the call returns a
\* result, not an error.
C8_BatchIsolatesFailures ==
  (run.pc = "returned" /\ run.mode = "plugin" /\ run.toValidate # <<>>) =>
    /\ ~run.err
    /\ run.result.status = "completed"
    /\ \A k \in 1..Len(run.toValidate) :
         LoggedFor(run.toValidate[k].Number, {"checkFormat"}) # {}
    /\ \A k \in 1..Len(run.rets) :
         run.rets[k].err # "nil" =>
           \E j \in 1..Len(run.result.errors) : run.result.errors[j].issue = run.rets[k].issue
    /\ run.result.error_count =
         Cardinality({k \in 1..Len(run.rets) : run.rets[k].err # "nil"})

\* the first issue failed and a later issue was fixed and labelled
C8_Witness ==
  /\ run.pc = "returned"
  /\ run.mode = "plugin"
  /\ Len(run.rets) >= 2
  /\ run.rets[1].err # "nil"
  /\ run.rets[Len(run.rets)].err = "nil"
  /\ ~run.rets[Len(run.rets)].valid
  /\ CarriesSentinel(run.rets[Len(run.rets)].issue)

\* the plugin run was given an issue number
RunNamesIssue == run.mode = "plugin" /\ run.param > 0

\* the run's look-up of the issue it was given failed
RequestedLookupFailed == RunNamesIssue /\ Event("GetIssue", run.param, FALSE) \in {log[k] : k \in 1..Len(log)}

ListingFailed == \E k \in 1..Len(log) : log[k].op = "ListIssues" /\ ~log[k].ok

\* issue n lacked the sentinel label when the run began: as listed, and as
\* the store holds it while the run has listed nothing
LackedSentinel(n) == IF run.all # <<>> THEN ~ListedWithSentinel(n) ELSE ~CarriesSentinel(n)

\* the issues evaluated by the run
EvaluatedIssues == {n \in 1..NumIssues : LoggedFor(n, {"checkFormat"}) # {}}

\* the issues on which the run attempted a rewrite, a comment or a label
TouchedIssues == {n \in 1..NumIssues : LoggedFor(n, {"Prompt", "UpdateIssue", "AddComment", "AddLabel"}) # {}}

\* C13 as claimed: a run given an issue number K, for any K, evaluates
\* exactly the open issues lacking the sentinel label, as a run without an
\* issue number does (whose only way to evaluate nothing else is a failed
\* listing of the open issues).
C13_AnyIssueNumberValidatesAll ==
  (run.pc = "returned" /\ RunNamesIssue /\ ~ListingFailed) =>
    EvaluatedIssues = {n \in 1..NumIssues : LackedSentinel(n)}

\* C13 as amended: with or without an issue number, a run that returns a
\* result has evaluated each open issue lacking the sentinel label once and
\* no other issue, and has attempted rewrites, comments and labels on
\* evaluated issues only; the number given plays no part in that set.  A run
\* whose look-up of the issue it was given failed returns an error having
\* done nothing but that look-up.
C13_IssueNumberIrrelevantOnceFetched ==
  /\ BatchDone =>
       /\ BatchEvaluatesUnlabelled
       /\ TouchedIssues \subseteq EvaluatedIssues
       /\ \A n \in EvaluatedIssues : \E k \in 1..Len(run.rets) : run.rets[k].issue = n
  /\ (run.pc = "returned" /\ RequestedLookupFailed) =>
       /\ run.err
       /\ log = <<Event("GetIssue", run.param, FALSE)>>
       /\ run.rets = <<>>

\* a finished run that was given the number of an issue carrying the
\* sentinel label, and evaluated and labelled another issue
C13_Witness ==
  /\ BatchDone
  /\ RunNamesIssue
  /\ run.param <= NumIssues
  /\ ListedWithSentinel(run.param)
  /\ \E n \in EvaluatedIssues : n # run.param /\ ValidatedAndLabelled(n)

\* the positions of the log at which the validator was invoked again
ReInvoked == {k \in 1..Len(log) : log[k].op = "Execute"}

\* before the second call no call of the collaborators failed but
\* possibly the first run's look-up of a labelled issue's repair, that is,
\* the first run reported no error and every add-label call it made
\* succeeded
FirstRunClean(m) ==
  \A k \in 1..(m - 1) : log[k].op \in {"AddLabel", "Prompt", "UpdateIssue", "ListIssues", "GetIssue"} => log[k].ok

\* C20: when a batch run has completed without errors, all its add-label
\* calls having succeeded, a second run on the store it left evaluates no
\* issue, calls neither text-completion nor update-issue nor add-comment
\* nor add-label, leaves the store as it is, and reports validated_count 0
\* with skipped_count the number of open issues.
C20_RepeatedRunValidatesNothing ==
  \A m \in ReInvoked :
    FirstRunClean(m) =>
      /\ \A k \in (m + 1)..Len(log) : log[k].op \in {"GetIssue", "ListIssues"}
      /\ run.pc \in {"idle", "returned"}
      /\ run.rets = <<>>
      /\ \A n \in 1..NumIssues : CarriesSentinel(n)
      /\ (run.pc = "returned" /\ ~run.err) =>
           /\ run.result.status = "completed"
           /\ run.result.validated_count = 0
           /\ run.result.skipped_count = NumIssues
           /\ run.result.total_issues = NumIssues

\* a first run that rewrote an issue and labelled it, and a second run that
\* has returned with nothing validated
C20_Witness ==
  /\ run.pc = "returned"
  /\ ~run.err
  /\ \E m \in ReInvoked :
       /\ FirstRunClean(m)
       /\ \E k \in 1..(m - 1) : log[k].op = "UpdateIssue" /\ log[k].ok
       /\ \E k \in 1..(m - 1) : log[k].op = "AddLabel" /\ log[k].ok
       /\ log[Len(log)] = Event("ListIssues", 0, TRUE)
  /\ run.result.validated_count = 0
  /\ run.result.skipped_count = NumIssues

\* the positions in the log of the calls the k-th ValidateAndFix call made
\* to the operations ops
CallIndexes(k, ops) ==
  {j \in (run.rets[k].from + 1)..run.rets[k].to : log[j].op \in ops}

\* C27: ValidateAndFix on a non-conforming issue calls add-comment only
\* after update-issue has succeeded; a failed update-issue yields an error
\* and no comment; a failed add-comment is swallowed: the call returns
\* (false, comment, nil) and the body stays updated.
C27_PersistBeforeComment ==
  \A k \in 1..Len(run.rets) :
    /\ \A j \in CallIndexes(k, {"AddComment"}) :
         \E i \in CallIndexes(k, {"UpdateIssue"}) : i < j /\ log[i].ok
    /\ Cardinality(CallIndexes(k, {"UpdateIssue"})) <= 1
    /\ Cardinality(CallIndexes(k, {"AddComment"})) <= 1
    /\ (\E i \in CallIndexes(k, {"UpdateIssue"}) : ~log[i].ok) =>
         /\ run.rets[k].err = "update"
         /\ run.rets[k].comment = <<>>
         /\ CallIndexes(k, {"AddComment"}) = {}
         /\ ~run.rets[k].changed
    /\ (\E j \in CallIndexes(k, {"AddComment"}) : ~log[j].ok) =>
         /\ run.rets[k].err = "nil"
         /\ ~run.rets[k].valid
         /\ HasPrefix(run.rets[k].comment, ValidatorText.FixComment)
         /\ run.rets[k].changed
         /\ store[run.rets[k].issue].Body # run.rets[k].input.Body
         /\ store[run.rets[k].issue].Comments = <<>>

\* one call whose update failed and one whose comment failed after the
\* update
C27_Witness ==
  /\ \E k \in 1..Len(run.rets) :
       /\ run.rets[k].err = "update"
       /\ Event("UpdateIssue", run.rets[k].issue, FALSE) \in CallsOf(k)
  /\ \E k \in 1..Len(run.rets) :
       /\ run.rets[k].err = "nil"
       /\ Event("UpdateIssue", run.rets[k].issue, TRUE) \in CallsOf(k)
       /\ Event("AddComment", run.rets[k].issue, FALSE) \in CallsOf(k)


(***************************************************************************)
(* Action Interpreter: plugins/executor.go executeGeneric                  *)
(***************************************************************************)
MaxActions == 2

\* result[k] = v on a Go map
Put(m, k, v) == (k :> v) @@ m

\* strings.SplitN(s, ":", 2)[1] of a string that holds a colon
AfterFirstColon(s) == Drop(s, Index(s, <<":">>) + 1)

\* the removal of a surrounding code fence in executeLLMAction
stripFence(summary) ==
  LET lines == SplitLines(summary)
  IN IF HasPrefix(summary, LLMActionText.FenceMarkdown)
       THEN (IF Len(lines) > 2 THEN Join(SubSeq(lines, 2, Len(lines) - 1), <<"\n">>) ELSE summary)
     ELSE IF HasPrefix(summary, ValidatorText.Fence)
       THEN (IF Len(lines) > 2 THEN Join(SubSeq(lines, 2, Len(lines) - 1), <<"\n">>) ELSE summary)
     ELSE summary

RECURSIVE collapseNewlines(_)
\* the loop that replaces three newlines by two while any are left
collapseNewlines(s) ==
  IF Contains(s, LLMActionText.Nl3) THEN collapseNewlines(ReplaceAll(s, LLMActionText.Nl3, LLMActionText.Nl2)) ELSE s

\* the "Summary:" reformatting and the heading insertion of executeLLMAction
withHeading(s) ==
  LET reformatted == IF HasPrefix(s, LLMActionText.SummaryColonU) \/ HasPrefix(s, LLMActionText.SummaryColonL)
                       THEN LLMActionText.ObjectivePre \o TrimSpace(AfterFirstColon(s))
                       ELSE s
  IN IF ~HasPrefix(reformatted, LLMActionText.TaskSummaryHead)
        /\ (Contains(reformatted, LLMActionText.ObjectiveU) \/ Contains(reformatted, LLMActionText.ObjectiveL))
       THEN LLMActionText.TaskSummaryHeadNl \o reformatted
       ELSE reformatted

\* the post-processing executeLLMAction applies to the completion
postProcessSummary(raw) ==
  LET cleaned == TrimSpace(ReplaceAll(stripFence(TrimSpace(raw)), LLMActionText.CRLF, <<"\n">>))
      spaced == ReplaceAll(ReplaceAll(ReplaceAll(withHeading(cleaned),
                  LLMActionText.NlHash, LLMActionText.NlNlHash), LLMActionText.NlStar, LLMActionText.NlNlStar), LLMActionText.Nl3Star, LLMActionText.NlNlStar)
  IN TrimSpace(collapseNewlines(spaced))

\* the Prompt call of executeLLMAction on issue n, with the completion returned
PromptEvent(n, ok, raw) == [op |-> "Prompt", issue |-> n, ok |-> ok, raw |-> raw]

\* the test of executeLLMAction for agents that are given project-wide data
needsProjectStats(agent) ==
  \E nameLower \in {ToLower(agent.Name)} :
    \/ Contains(nameLower, LLMActionText.executive)
    \/ Contains(nameLower, LLMActionText.progress)
    \/ Contains(nameLower, GenericText.summary)

\* gatherProjectStats: the open and the closed issues are listed; with the
\* closed listing at hand the stored open count is asserted to be an int,
\* which panics when the open listing failed and stored none
gatherProjectStats(lg, o) ==
  [log |-> Append(Append(lg, Event("ListIssues", 0, o.openOk)),
                  Event("ListClosedIssues", 0, o.closedOk)),
   panic |-> o.closedOk /\ ~o.openOk]

\* executeLLMAction: the project statistics for the agents given them, then
\* one Prompt call, an error map when it fails, the summary under both keys
\* otherwise
executeLLMAction(agent, lg, n, o) ==
  CHOOSE r \in
    {IF stats.panic
       THEN [log |-> stats.log, panic |-> TRUE, map |-> <<>>]
     ELSE IF ~o.llmOk
       THEN [log |-> Append(stats.log, PromptEvent(n, FALSE, o.raw)), panic |-> FALSE,
             map |-> [error |-> "LLM call failed"]]
     ELSE [log |-> Append(stats.log, PromptEvent(n, TRUE, o.raw)), panic |-> FALSE,
           map |-> CHOOSE m \in {[summary |-> s, content |-> s] :
                                   s \in {postProcessSummary(o.raw)}} : TRUE] :
     stats \in {IF needsProjectStats(agent) THEN gatherProjectStats(lg, o)
                ELSE [log |-> lg, panic |-> FALSE]}} : TRUE

\* a slip that leaves out the test for "check"
isLengthCheck_NoCheck(actionLower) ==
  \/ Contains(actionLower, GenericText.length)
  \/ Contains(actionLower, GenericText.long)
  \/ Contains(actionLower, GenericText.threshold)

\* the three keyword tests of the loop of executeGeneric on a lower-cased phrase
isLengthCheck(actionLower) ==
  /\ Contains(actionLower, GenericText.check)
  /\ \/ Contains(actionLower, GenericText.length)
     \/ Contains(actionLower, GenericText.long)
     \/ Contains(actionLower, GenericText.threshold)

isGenerate(actionLower) ==
  /\ Contains(actionLower, GenericText.llm) \/ Contains(actionLower, GenericText.generate)
  /\ \/ Contains(actionLower, GenericText.summary)
     \/ Contains(actionLower, GenericText.content)
     \/ Contains(actionLower, GenericText.text)

isComment(actionLower) == Contains(actionLower, GenericText.add) /\ Contains(actionLower, GenericText.comment)

\* "minLength := 200"
DefaultMinLength == 200

\* "if issue == nil { issue, issueErr = GetIssue(...) }" with its error return
fetchIssue(s, n, getOk) ==
  IF s.cached THEN s
  ELSE [s EXCEPT !.log = Append(@, Event("GetIssue", n, getOk)),
                 !.cached = getOk,
                 !.ret = IF getOk THEN "none" ELSE "err"]

\* pluginAgent.Config["min_length_for_summary"].(int) with the default 200
minLengthOf(config) == IF config.kind = "int" THEN config.val ELSE DefaultMinLength

\* fmt.Sprintf("Task is too short to summarize (%d chars, minimum %d)", ...)
tooShortToSummarize(len, minLength) ==
  GenericText.TooShortSummaryPre \o Itoa(len) \o GenericText.TooShortSummaryMid \o Itoa(minLength) \o <<")">>

\* a slip that marks the result skipped but goes on with the action list
lengthGate_NoReturn(s, agent, n, o) ==
  CHOOSE t \in {IF s1.ret # "none" THEN s1
                ELSE IF Len(s1.store[n].Body) < minLengthOf(agent.Config)
                  THEN [s1 EXCEPT !.result =
                          Put(Put(@, "status", "skipped"), "message",
                              tooShortToSummarize(Len(s1.store[n].Body), minLengthOf(agent.Config)))]
                ELSE [s1 EXCEPT !.result =
                        Put(Put(@, "task_length", Len(s1.store[n].Body)),
                            "length_check_passed", TRUE)] :
                  s1 \in {fetchIssue(s, n, o.getOk)}} : TRUE

\* the length check of executeGeneric (lines 1070-1092) for a target issue
lengthGate(s, agent, n, o) ==
  CHOOSE t \in {IF s1.ret # "none" THEN s1
                ELSE IF Len(s1.store[n].Body) < minLengthOf(agent.Config)
                  THEN [s1 EXCEPT !.result =
                          Put(Put(@, "status", "skipped"), "message",
                              tooShortToSummarize(Len(s1.store[n].Body), minLengthOf(agent.Config))),
                                  !.ret = "ok"]
                ELSE [s1 EXCEPT !.result =
                        Put(Put(@, "task_length", Len(s1.store[n].Body)),
                            "length_check_passed", TRUE)] :
                  s1 \in {fetchIssue(s, n, o.getOk)}} : TRUE

\* a slip that copies the content entry of the helper too
generate_BothKeys(s, agent, n, o) ==
  CHOOSE t \in {IF s1.ret # "none" THEN s1
                ELSE CHOOSE u \in
                  {IF r.panic
                     THEN [s1 EXCEPT !.log = r.log, !.ret = "panic"]
                   ELSE IF "summary" \in DOMAIN r.map /\ r.map.summary # <<>>
                     THEN [s1 EXCEPT !.log = r.log,
                                     !.result = Put(Put(Put(@, "summary", r.map.summary),
                                                        "content", r.map.content),
                                                    "llm_called", TRUE)]
                   ELSE IF "content" \in DOMAIN r.map /\ r.map.content # <<>>
                     THEN [s1 EXCEPT !.log = r.log,
                                     !.result = Put(Put(@, "summary", r.map.content),
                                                    "llm_called", TRUE)]
                   ELSE [s1 EXCEPT !.log = r.log] :
                     r \in {executeLLMAction(agent, s1.log, n, o)}} : TRUE :
                  s1 \in {fetchIssue(s, n, o.getOk)}} : TRUE

\* a slip that keeps the summary of the first completion
generate_KeepFirst(s, agent, n, o) ==
  CHOOSE t \in {IF s1.ret # "none" THEN s1
                ELSE CHOOSE u \in
                  {IF r.panic
                     THEN [s1 EXCEPT !.log = r.log, !.ret = "panic"]
                   ELSE IF "summary" \in DOMAIN s1.result
                     THEN [s1 EXCEPT !.log = r.log]
                   ELSE IF "summary" \in DOMAIN r.map /\ r.map.summary # <<>>
                     THEN [s1 EXCEPT !.log = r.log,
                                     !.result = Put(Put(@, "summary", r.map.summary),
                                                    "llm_called", TRUE)]
                   ELSE [s1 EXCEPT !.log = r.log] :
                     r \in {executeLLMAction(agent, s1.log, n, o)}} : TRUE :
                  s1 \in {fetchIssue(s, n, o.getOk)}} : TRUE

\* the generate phase of executeGeneric (lines 1095-1116) for a target issue
generate(s, agent, n, o) ==
  CHOOSE t \in {IF s1.ret # "none" THEN s1
                ELSE CHOOSE u \in
                  {IF r.panic
                     THEN [s1 EXCEPT !.log = r.log, !.ret = "panic"]
                   ELSE IF "summary" \in DOMAIN r.map /\ r.map.summary # <<>>
                     THEN [s1 EXCEPT !.log = r.log,
                                     !.result = Put(Put(@, "summary", r.map.summary),
                                                    "llm_called", TRUE)]
                   ELSE IF "content" \in DOMAIN r.map /\ r.map.content # <<>>
                     THEN [s1 EXCEPT !.log = r.log,
                                     !.result = Put(Put(@, "summary", r.map.content),
                                                    "llm_called", TRUE)]
                   ELSE [s1 EXCEPT !.log = r.log] :
                     r \in {executeLLMAction(agent, s1.log, n, o)}} : TRUE :
                  s1 \in {fetchIssue(s, n, o.getOk)}} : TRUE

\* a slip that posts the summary entry whether or not there is one
commentContent_NoFallback(result, agent) ==
  IF "summary" \in DOMAIN result THEN result.summary ELSE <<>>

\* the comment executeGeneric hands to addCommentToIssue
commentContent(result, agent) ==
  IF "summary" \in DOMAIN result /\ result.summary # <<>>
    THEN result.summary
    ELSE LLMActionText.Robot \o agent.Name \o GenericText.ExecutedOk

\* the text addCommentToIssue posts: banner, then the trimmed content after
\* a newline
commentText(agent, content) ==
  LET trimmed == TrimSpace(content)
  IN LLMActionText.Robot \o agent.Name \o LLMActionText.BannerTail
     \o (IF ~HasPrefix(trimmed, <<"\n">>) THEN <<"\n">> \o trimmed ELSE trimmed)

\* the message executeGeneric records after a posted comment,
\* fmt.Sprintf("Summary generated and added as comment to issue #%d", n):
\* set when there is none yet, replaced when the result holds a summary
withCommentMessage(result, n) ==
  IF "message" \notin DOMAIN result \/ "summary" \in DOMAIN result
    THEN Put(result, "message", GenericText.SummaryAdded \o Itoa(n))
    ELSE result

\* the event of an AddComment call, with the text passed
CommentEvent(n, ok, text) ==
  [op |-> "AddComment", issue |-> n, ok |-> ok, text |-> text]

\* the comment phase of executeGeneric (lines 1119-1152) with
\* addCommentToIssue for a target issue
comment(s, agent, n, o) ==
  CHOOSE t \in {IF s1.ret # "none" THEN s1
                ELSE IF ~o.comGetOk
                  THEN [s1 EXCEPT !.log = Append(@, Event("GetIssue", n, FALSE)),
                                  !.result = Put(@, "comment_error", "get issue")]
                ELSE CHOOSE u \in
                  {IF ~o.comOk
                     THEN [s1 EXCEPT !.log = Append(Append(@, Event("GetIssue", n, TRUE)),
                                                    CommentEvent(n, FALSE, text)),
                                     !.result = Put(@, "comment_error", "add comment")]
                     ELSE [s1 EXCEPT !.log = Append(Append(@, Event("GetIssue", n, TRUE)),
                                                    CommentEvent(n, TRUE, text)),
                                     !.store = AddComment(@, n, text),
                                     !.result = Put(withCommentMessage(Put(@, "comment_added", TRUE), n),
                                                    "status", "completed")] :
                     text \in {commentText(agent, commentContent(s1.result, agent))}} : TRUE :
                  s1 \in {fetchIssue(s, n, o.getOk)}} : TRUE


\* the pattern blocks a phrase of the action list selects, by the keyword
\* tests on strings.ToLower(action)
actionKind(action) ==
  CHOOSE k \in {[check |-> isLengthCheck(actionLower),
                 generate |-> isGenerate(actionLower),
                 comment |-> isComment(actionLower)] :
                  actionLower \in {ToLower(action)}} : TRUE

\* one phrase of the action list: the three pattern blocks of the loop body
\* in their order, each only for a call that names an issue and only while
\* the call has not returned
executeAction(s, agent, hasIssue, n, kind, o) ==
  CHOOSE t \in
    {IF s2.ret = "none" /\ hasIssue /\ kind.comment
       THEN comment(s2, agent, n, o) ELSE s2 :
     s2 \in {IF s1.ret = "none" /\ hasIssue /\ kind.generate
               THEN generate(s1, agent, n, o) ELSE s1 :
             s1 \in {IF hasIssue /\ kind.check
                       THEN lengthGate(s, agent, n, o) ELSE s}}} : TRUE

\* extractIssueNumber on the "issue_number" parameter (0: absent or not positive)
extractIssueNumber(param) == [num |-> IF param > 0 THEN param ELSE 0, ok |-> param > 0]

\* lines 1047-1059: the initial result map, with the issue number if any
initialResult(agent, x) ==
  IF x.ok
    THEN Put([agent |-> agent.Name, type |-> agent.Type,
              status |-> "executed", actions |-> agent.Actions], "issue", x.num)
    ELSE [agent |-> agent.Name, type |-> agent.Type,
          status |-> "executed", actions |-> agent.Actions]

(***************************************************************************)
(* Calls of executeGeneric on a store of one issue                         *)
(***************************************************************************)
\* the phrases of the shipped agent, a bare "Add comment", and a phrase that
\* mentions "long" without "check" (the first guideline of the shipped agent)
GenPhrases ==
  {SummarizerText.Check, SummarizerText.Generate, SummarizerText.Comment,
   GenericText.AddComment, SummarizerText.LongTasks}

\* the action list of the shipped Task Summarizer agent
SummarizerActions == <<SummarizerText.Check, SummarizerText.Generate, SummarizerText.Comment>>

\* the configuration block: no min_length_for_summary entry, an integer one
\* (50 is the shipped value), or an entry of another YAML type
GenConfigs ==
  {[kind |-> "none", val |-> 0], [kind |-> "int", val |-> 50],
   [kind |-> "other", val |-> 0]}

\* completions the text-completion service may return
GenCompletions == {Completions.Blank, Completions.Plain, Completions.FencedSummary}

\* what the collaborators do during one phrase: the first GetIssue, the
\* Prompt call and its completion, the GetIssue and the AddComment of
\* addCommentToIssue
GenOutcomes ==
  {o \in [getOk : BOOLEAN, llmOk : BOOLEAN, raw : GenCompletions,
          comGetOk : BOOLEAN, comOk : BOOLEAN, openOk : BOOLEAN, closedOk : BOOLEAN] :
     /\ o.llmOk \/ o.raw = Completions.Blank
     /\ o.comGetOk \/ ~o.comOk}

\* the outcomes that matter for one phrase: those of calls the phrase cannot
\* make are fixed
GenOutcomesFor(kind, hasIssue, cached, stats) ==
  {o \in GenOutcomes :
     /\ (cached \/ ~hasIssue \/ ~(kind.check \/ kind.generate \/ kind.comment)) => o.getOk
     /\ ~(hasIssue /\ kind.generate) => (o.llmOk /\ o.raw = Completions.Plain)
     /\ ~(hasIssue /\ kind.generate /\ stats) => (o.openOk /\ o.closedOk)
     /\ ~(hasIssue /\ kind.comment) => (o.comGetOk /\ o.comOk)}

\* the executor Execute hands a call to, by the agent's name
Execute(name) ==
  CHOOSE x \in
    {IF name = ExecuteText.TaskValidator \/ Contains(l, ExecuteText.validator) THEN "executeValidator"
     ELSE IF name = ExecuteText.StaleTaskMonitor \/ Contains(l, ExecuteText.monitor) THEN "executeMonitor"
     ELSE IF name = ExecuteText.ProductRoaster \/ Contains(l, ExecuteText.roaster) THEN "executeRoaster"
     ELSE IF Contains(l, ExecuteText.codeReview) \/ Contains(l, ExecuteText.review) THEN "executeCodeReview"
     ELSE IF Contains(l, ExecuteText.deployment) THEN "executeDeployment"
     ELSE IF name = ExecuteText.ExecutiveSummaryGenerator \/ Contains(l, ExecuteText.executiveSummary)
       THEN "executeExecutiveSummary"
     ELSE IF name = ExecuteText.ProgressReporter \/ Contains(l, ExecuteText.progressReporter)
       THEN "executeProgressReporter"
     ELSE "executeGeneric" : l \in {ToLower(name)}} : TRUE

InitGeneric ==
  /\ cf = Idle
  /\ mg = Idle
  /\ run = Idle
  /\ log = <<>>
  /\ \E len \in {10, 60, 250} :
       store = <<[Body |-> [k \in 1..len |-> "b"], Labels |-> <<>>, Comments |-> <<>>]>>
  /\ \E actions \in SeqsUpTo(GenPhrases, MaxActions) \cup {SummarizerActions}, config \in GenConfigs, param \in 0..1 :
       gen = [pc |-> "idle",
              agent |-> [Name |-> SummarizerText.TaskSummarizer, Type |-> "custom",
                         Actions |-> actions, Config |-> config],
              param |-> param, hasIssue |-> FALSE, issueNum |-> 0,
              i |-> 0, cached |-> FALSE, result |-> <<>>, err |-> FALSE]

\* entry of executeGeneric up to the loop
ExecuteGenericStart ==
  /\ gen.pc = "idle"
  /\ Execute(gen.agent.Name) = "executeGeneric"
  /\ \E x \in {extractIssueNumber(gen.param)} :
       gen' = [gen EXCEPT !.pc = "running", !.i = 1,
                          !.hasIssue = x.ok, !.issueNum = x.num,
                          !.result = initialResult(gen.agent, x)]
  /\ UNCHANGED <<cf, mg, store, run, log>>

\* one iteration of the loop over pluginAgent.Actions
ExecuteGenericAction ==
  /\ gen.pc = "running"
  /\ gen.i <= Len(gen.agent.Actions)
  /\ \E kind \in {actionKind(gen.agent.Actions[gen.i])} :
     \E o \in GenOutcomesFor(kind, gen.hasIssue, gen.cached,
                              kind.generate /\ needsProjectStats(gen.agent)) :
       \E t \in {executeAction([cached |-> gen.cached, result |-> gen.result,
                               log |-> log, store |-> store, ret |-> "none"],
                              gen.agent, gen.hasIssue, gen.issueNum, kind, o)} :
         /\ store' = t.store
         /\ log' = t.log
         /\ gen' = [gen EXCEPT !.cached = t.cached,
                               !.result = t.result,
                               !.err = (t.ret = "err"),
                               !.pc = IF t.ret = "none" THEN "running"
                                     ELSE IF t.ret = "panic" THEN "panicked"
                                     ELSE "returned",
                               !.i = IF t.ret = "none" THEN @ + 1 ELSE @]
  /\ UNCHANGED <<cf, mg, run>>

\* lines 1155-1160: the default message and the return after the loop
ExecuteGenericReturn ==
  /\ gen.pc = "running"
  /\ gen.i > Len(gen.agent.Actions)
  /\ gen' = [gen EXCEPT !.pc = "returned",
                        !.result = IF "message" \notin DOMAIN @
                                     THEN Put(@, "message", GenericText.PluginPre \o gen.agent.Name \o GenericText.PluginMid
                                                       \o Itoa(Len(gen.agent.Actions)) \o GenericText.PluginPost)
                                     ELSE @]
  /\ UNCHANGED <<cf, mg, store, run, log>>

NextGeneric ==
  \/ ExecuteGenericStart
  \/ ExecuteGenericAction
  \/ ExecuteGenericReturn

SpecGeneric == InitGeneric /\ [][NextGeneric]_vars

(***************************************************************************)
(* Calls of Execute for plugin agents handed to executeGeneric             *)
(***************************************************************************)
\* names of plugin agents: the shipped Task Summarizer, two digests and the
\* shipped Progress Reporter, which Execute hands to another executor
MaxExActions == 1

InitExecute ==
  /\ cf = Idle
  /\ mg = Idle
  /\ run = Idle
  /\ log = <<>>
  /\ \E len \in {10, 60, 250} :
       store = <<[Body |-> [k \in 1..len |-> "b"], Labels |-> <<>>, Comments |-> <<>>]>>
  /\ \E name \in {SummarizerText.TaskSummarizer, LLMActionText.SprintSummary,
                  LLMActionText.ProgressDigest, ExecuteText.ProgressReporter},
        actions \in SeqsUpTo({SummarizerText.Generate, SummarizerText.Comment}, MaxExActions)
                      \cup {SummarizerActions},
        config \in GenConfigs, param \in 0..1 :
       gen = [pc |-> "idle",
              agent |-> [Name |-> name, Type |-> "custom",
                         Actions |-> actions, Config |-> config],
              param |-> param, hasIssue |-> FALSE, issueNum |-> 0,
              i |-> 0, cached |-> FALSE, result |-> <<>>, err |-> FALSE]

SpecExecute == InitExecute /\ [][NextGeneric]_vars

(***************************************************************************)
(* Properties of the Action Interpreter                                    *)
(***************************************************************************)
\* the phrase mentions the word, in any letter case
Mentions(phrase, word) == OccursIgnoringCase(word, phrase)

\* the phrases that are length checks: "check" with length, long or threshold
GenGatePhrases ==
  {phrase \in GenPhrases :
     /\ Mentions(phrase, GenericText.check)
     /\ Mentions(phrase, GenericText.length) \/ Mentions(phrase, GenericText.long) \/ Mentions(phrase, GenericText.threshold)}

GenGateFires(phrase) == phrase \in GenGatePhrases

\* the minimum in force: the integer min_length_for_summary, else 200
GenMinimum ==
  IF gen.agent.Config.kind = "int" THEN gen.agent.Config.val ELSE 200

GenShort == Len(store[1].Body) < GenMinimum

\* the operations called during a step
GenNewOps == {log'[k].op : k \in (Len(log) + 1)..Len(log')}

GenOps == {log[k].op : k \in 1..Len(log)}

GenTooShortText ==
  GenericText.TooShortSummaryPre \o Itoa(Len(store[1].Body)) \o GenericText.TooShortSummaryMid
    \o Itoa(GenMinimum) \o <<")">>

\* a length check on a short issue ends the call in the same step, calling
\* nothing but the fetch of the issue; with the issue fetched the result is
\* "skipped" with the too-short message
GenGateStep ==
  (/\ gen.pc = "running"
   /\ gen.i <= Len(gen.agent.Actions)
   /\ gen.hasIssue
   /\ GenShort
   /\ GenGateFires(gen.agent.Actions[gen.i]))
  => /\ gen'.pc = "returned"
     /\ gen'.i = gen.i
     /\ GenNewOps \subseteq {"GetIssue"}
     /\ store' = store
     /\ gen'.err => log' # <<>> /\ ~log'[Len(log')].ok
     /\ ~gen'.err => /\ gen'.result.status = "skipped"
                     /\ gen'.result.message = GenTooShortText

\* a returned call whose first phrase is a length check on a short issue has
\* called neither Prompt nor AddComment
GenFirstGate ==
  (/\ gen.pc = "returned"
   /\ gen.hasIssue
   /\ gen.agent.Actions # <<>>
   /\ GenShort
   /\ GenGateFires(gen.agent.Actions[1]))
  => GenOps \cap {"Prompt", "AddComment"} = {}

\* C9: when a length-check phrase fires for an issue whose body is shorter
\* than the minimum (min_length_for_summary, default 200), the call returns
\* in that step with status "skipped" and the too-short message, nothing
\* runs after the return, and with the length check first there is no
\* Prompt call and no AddComment call.
C9_LengthGateShortCircuits ==
  [][GenGateStep /\ GenFirstGate' /\ gen.pc # "returned"]_vars

\* the shipped agent on a 10-character body with the minimum 50: skipped
\* after the one fetch, the generate and comment phrases not run
C9_Witness ==
  /\ gen.pc = "returned"
  /\ ~gen.err
  /\ gen.agent.Actions = SummarizerActions
  /\ gen.agent.Config = [kind |-> "int", val |-> 50]
  /\ Len(store[1].Body) = 10
  /\ gen.result.status = "skipped"
  /\ gen.i = 1
  /\ log = <<Event("GetIssue", 1, TRUE)>>
  /\ store[1].Comments = <<>>

\* the banner addCommentToIssue puts first, with the newline that follows it
GenBanner == LLMActionText.Robot \o gen.agent.Name \o LLMActionText.BannerTail \o <<"\n">>

\* the comment posted when there is nothing to say
GenFallback == GenBanner \o LLMActionText.Robot \o gen.agent.Name \o GenericText.ExecutedOk

\* C10: every comment the comment phase posts has text after the banner, and
\* when the result map holds no summary the comment is the banner followed
\* by the "executed successfully" notice; a posted comment is what the issue
\* receives.
C10_FallbackComment ==
  [][\A k \in (Len(log) + 1)..Len(log') :
       log'[k].op = "AddComment" =>
         /\ Len(log'[k].text) > Len(GenBanner)
         /\ "summary" \notin DOMAIN gen'.result => log'[k].text = GenFallback
         /\ log'[k].ok => /\ store'[1].Comments # <<>>
                          /\ store'[1].Comments[Len(store'[1].Comments)] = log'[k].text]_vars

\* a generate phrase ran a Prompt that produced nothing, and the comment
\* posted afterwards is the fallback
C10_Witness ==
  /\ "summary" \notin DOMAIN gen.result
  /\ store[1].Comments = <<GenFallback>>
  /\ \E k \in 1..Len(log) :
       /\ log[k].op = "AddComment"
       /\ log[k].ok
       /\ log[k].text = GenFallback
       /\ \E j \in 1..(k - 1) : log[j].op = "Prompt"

\* C14: a call of Execute ends with a result map or an error value; it
\* never ends in a panic, whatever the issue-store and text-completion calls
\* do.
C14_ExecuteNeverPanics == gen.pc # "panicked"

\* the Prompt calls made during a step
GenNewPrompts == {log'[k] : k \in {j \in (Len(log) + 1)..Len(log') : log'[j].op = "Prompt"}}

\* the text a completion leaves after post-processing
GenText(e) == IF e.ok THEN postProcessSummary(e.raw) ELSE <<>>

\* C16 as claimed: after a generate phrase obtained a text, the result map
\* of the call holds it under "summary" and under "content".
C16_SummaryAndContent ==
  [][\A e \in GenNewPrompts :
       \A text \in {GenText(e)} :
         text # <<>> =>
           /\ "summary" \in DOMAIN gen'.result /\ gen'.result.summary = text
           /\ "content" \in DOMAIN gen'.result /\ gen'.result.content = text]_vars

\* C16 as amended: after a generate phrase obtained a text, the result map
\* of the call holds it under "summary" with llm_called set, and holds no
\* "content" entry; a failed or empty completion leaves the summary entry as
\* it was.
C16_SummaryOnly ==
  [][\A e \in GenNewPrompts :
       \A text \in {GenText(e)} :
         /\ "content" \notin DOMAIN gen'.result
         /\ text # <<>> =>
              /\ "summary" \in DOMAIN gen'.result /\ gen'.result.summary = text
              /\ "llm_called" \in DOMAIN gen'.result /\ gen'.result.llm_called
         /\ text = <<>> =>
              /\ ("summary" \in DOMAIN gen'.result) = ("summary" \in DOMAIN gen.result)
              /\ "summary" \in DOMAIN gen.result => gen'.result.summary = gen.result.summary]_vars

\* a returned call whose generate phrase stored the text of a fenced
\* completion
C16_Witness ==
  /\ gen.pc = "returned"
  /\ \E k \in 1..Len(log) : log[k].op = "Prompt" /\ log[k].ok /\ log[k].raw = Completions.FencedSummary
  /\ "summary" \in DOMAIN gen.result
  /\ gen.result.summary = postProcessSummary(Completions.FencedSummary)
  /\ gen.result.summary # <<>>
  /\ "content" \notin DOMAIN gen.result

\* the failed Prompt calls of the call so far
GenFailedPrompts == {k \in 1..Len(log) : log[k].op = "Prompt" /\ ~log[k].ok}

\* C21: a failed text-completion call of a generate phrase ends the call's
\* work and is reported: the call returns an error or a result map with an
\* error entry, and no comment phase afterwards posts the "executed
\* successfully" comment.
C21_LlmFailureAborts ==
  \A k \in GenFailedPrompts :
    /\ gen.pc = "returned" => (gen.err \/ "error" \in DOMAIN gen.result)
    /\ \A j \in (k + 1)..Len(log) : ~(log[j].op = "AddComment" /\ log[j].text = GenFallback)

\* the phrases of the action list the loop has reached so far
GenReached ==
  IF gen.pc \in {"running", "returned", "panicked"}
    THEN {gen.agent.Actions[k] : k \in 1..(IF gen.i <= Len(gen.agent.Actions) THEN gen.i ELSE Len(gen.agent.Actions))}
    ELSE {}

GenMentionsLength(phrase) ==
  Mentions(phrase, GenericText.length) \/ Mentions(phrase, GenericText.long) \/ Mentions(phrase, GenericText.threshold)

GenMentionsGenerate(phrase) ==
  /\ Mentions(phrase, GenericText.llm) \/ Mentions(phrase, GenericText.generate)
  /\ Mentions(phrase, GenericText.summary) \/ Mentions(phrase, GenericText.content) \/ Mentions(phrase, GenericText.text)

GenMentionsComment(phrase) == Mentions(phrase, GenericText.add) /\ Mentions(phrase, GenericText.comment)

\* the blocks each phrase selects in executeGeneric
GenSelected == [phrase \in GenPhrases |-> actionKind(phrase)]

\* the blocks each phrase selects by the keywords it mentions, the length
\* check with or without the need of "check"
GenByKeywords(needsCheck) ==
  [phrase \in GenPhrases |->
     [check |-> (needsCheck => Mentions(phrase, GenericText.check)) /\ GenMentionsLength(phrase),
      generate |-> GenMentionsGenerate(phrase),
      comment |-> GenMentionsComment(phrase)]]

GenClaimedKinds == GenByKeywords(FALSE)

GenCheckedKinds == GenByKeywords(TRUE)

\* C22 as claimed: a phrase selects the length check exactly when it mentions
\* "length", "long" or "threshold", the generate block exactly when it
\* mentions ("llm" or "generate") and ("summary", "content" or "text"), and
\* the comment block exactly when it mentions "add" and "comment", whatever
\* the letter case.
C22_PhraseKeywords ==
  \A phrase \in GenReached : GenSelected[phrase] = GenClaimedKinds[phrase]

\* C22 as amended: the length check is selected exactly when the phrase
\* mentions "check" and one of "length", "long", "threshold"; the other two
\* blocks as claimed.
C22_PhraseKeywordsWithCheck ==
  \A phrase \in GenReached : GenSelected[phrase] = GenCheckedKinds[phrase]

\* a call for an issue went past the phrase that mentions "long" without
\* "check" and made no call and no length entry for it, then ran the length
\* check of the shipped phrase
C22_Witness ==
  /\ gen.pc = "running"
  /\ gen.hasIssue
  /\ gen.agent.Actions = <<SummarizerText.LongTasks, SummarizerText.Check>>
  /\ gen.i = 3
  /\ log = <<Event("GetIssue", 1, TRUE)>>
  /\ "length_check_passed" \in DOMAIN gen.result

\* C23: one call of executeGeneric fetches the target issue at most once;
\* every later block, the comment block included, uses the issue at hand.
C23_FetchedAtMostOnce ==
  Cardinality({k \in 1..Len(log) : log[k].op = "GetIssue"}) <= 1

\* the Prompt calls of lg before position k, and those that left a text
GenPromptsBefore(lg, k) == {j \in 1..(k - 1) : lg[j].op = "Prompt"}

GenWritersBefore(lg, k) == {j \in GenPromptsBefore(lg, k) : GenText(lg[j]) # <<>>}

\* the greatest member of a non-empty set of positions
GenLast(S) == CHOOSE j \in S : \A i \in S : i <= j

\* a step of the loop takes the phrase at gen.i, ends the call or moves to
\* the next phrase, and makes one Prompt call when its generate block runs
GenInOrder ==
  (gen.pc = "running" /\ gen.i <= Len(gen.agent.Actions)) =>
    /\ gen'.pc = "running" => gen'.i = gen.i + 1
    /\ gen'.pc # "running" => gen'.i = gen.i
    /\ Cardinality(GenNewPrompts) <= 1
    /\ (/\ GenSelected[gen.agent.Actions[gen.i]].generate
        /\ gen.hasIssue
        /\ gen'.pc = "running") => Cardinality(GenNewPrompts) = 1
    /\ ~(GenSelected[gen.agent.Actions[gen.i]].generate /\ gen.hasIssue) => GenNewPrompts = {}

\* C24 as claimed: the phrases run in list order, each generate block makes
\* its own Prompt call, and a comment posted after Prompt calls of which one
\* left a text carries the output of the most recent Prompt call; with no
\* text generated before it the comment is the fallback.
C24_CommentCarriesLatestOutput ==
  [][/\ GenInOrder
     /\ \A k \in (Len(log) + 1)..Len(log') :
          log'[k].op = "AddComment" =>
            IF GenWritersBefore(log', k) = {}
              THEN log'[k].text = GenFallback
              ELSE log'[k].text = GenBanner \o GenText(log'[GenLast(GenPromptsBefore(log', k))])]_vars

\* C24 as amended: the phrases run in list order, each generate block makes
\* its own Prompt call, and a comment carries the text of the most recent
\* Prompt call that left one (a failed or empty completion overwrites
\* nothing); with no text generated before it the comment is the fallback.
C24_CommentCarriesLatestText ==
  [][/\ GenInOrder
     /\ \A k \in (Len(log) + 1)..Len(log') :
          log'[k].op = "AddComment" =>
            IF GenWritersBefore(log', k) = {}
              THEN log'[k].text = GenFallback
              ELSE log'[k].text = GenBanner \o GenText(log'[GenLast(GenWritersBefore(log', k))])]_vars

\* two Prompt calls left different texts and the comment posted afterwards
\* carries the second
C24_Witness ==
  /\ gen.pc = "returned"
  /\ \E k \in 1..Len(log) :
       /\ log[k].op = "AddComment"
       /\ log[k].ok
       /\ \E i, j \in GenWritersBefore(log, k) :
            /\ i < j
            /\ GenText(log[i]) # GenText(log[j])
            /\ log[k].text = GenBanner \o GenText(log[j])
            /\ store[1].Comments = <<log[k].text>>
(***************************************************************************)
(* The digest generators: executeExecutiveSummary, executeProgressReporter *)
(***************************************************************************)

MaxDigestIssues == 2

\* cleanMarkdownResponse: trim, drop the first and last line of a fenced
\* response of more than two lines, normalise line breaks, collapse runs of
\* newlines, trim
cleanMarkdownResponse(response) ==
  LET trimmed == TrimSpace(response)
      lines == SplitLines(trimmed)
      unfenced == IF (HasPrefix(trimmed, LLMActionText.FenceMarkdown) \/ HasPrefix(trimmed, ValidatorText.Fence))
                     /\ Len(lines) > 2
                    THEN Join(SubSeq(lines, 2, Len(lines) - 1), <<"\n">>)
                    ELSE trimmed
      spaced == ReplaceAll(ReplaceAll(ReplaceAll(unfenced, LLMActionText.CRLF, <<"\n">>),
                                      LLMActionText.NlHash, LLMActionText.NlNlHash), LLMActionText.NlStar, LLMActionText.NlNlStar)
  IN TrimSpace(collapseNewlines(spaced))

\* the issues of the store in the given state, as ListIssues returns them
ListIssuesIn(st, state) == SelectSeq(st, LAMBDA issue : issue.State = state)

\* the count of issues carrying a label that contains "blocked"
blockedCount(issues) ==
  Cardinality({k \in 1..Len(issues) :
                 \E j \in 1..Len(issues[k].Labels) :
                   Contains(ToLower(issues[k].Labels[j]), DigestText.Blocked)})

\* Client.CreateIssue: the new open issue takes the next number
CreateIssue(st, title, body, labels) ==
  Append(st, [State |-> "open", Labels |-> labels, Title |-> title, Body |-> body])

CreateIssueEvent(title, body, labels, ok) ==
  [op |-> "CreateIssue", issue |-> 0, ok |-> ok, title |-> title, body |-> body,
   labels |-> labels]

\* what the collaborators do during one call: the two listings, the Prompt
\* call and its completion, the CreateIssue call
DgOutcomes ==
  {o \in [openOk : BOOLEAN, closedOk : BOOLEAN, llmOk : BOOLEAN, raw : GenCompletions,
          createOk : BOOLEAN] : o.llmOk \/ o.raw = Completions.Blank}

\* the issues a project holds before a digest is generated, and the agent
\* the executor is called for
InitDigest ==
  /\ cf = Idle
  /\ mg = Idle
  /\ gen = Idle
  /\ log = <<>>
  /\ store \in SeqsUpTo({[State |-> "open", Labels |-> <<>>, Title |-> <<"t">>, Body |-> <<"b">>],
                         [State |-> "open", Labels |-> <<DigestText.Blocked>>,
                          Title |-> <<"t">>, Body |-> <<"b">>],
                         [State |-> "closed", Labels |-> <<>>, Title |-> <<"t">>, Body |-> <<"b">>]},
                        MaxDigestIssues)
  /\ \E name \in {ExecuteText.ExecutiveSummaryGenerator, ExecuteText.ProgressReporter} :
       run = [pc |-> "idle", agent |-> [Name |-> name], result |-> <<>>, err |-> FALSE]

DgError == [run EXCEPT !.pc = "returned", !.err = TRUE]

\* a slip that turns a failed CreateIssue into an error of the call
ExecuteExecutiveSummary_CreateFatal ==
  /\ run.pc = "idle"
  /\ Execute(run.agent.Name) = "executeExecutiveSummary"
  /\ \E o \in DgOutcomes :
       LET issues == ListIssuesIn(store, "open")
           closedIssues == IF o.closedOk THEN ListIssuesIn(store, "closed") ELSE <<>>
           lg1 == Append(log, Event("ListIssues", 0, o.openOk))
           lg2 == Append(lg1, Event("ListClosedIssues", 0, o.closedOk))
           lg3 == Append(lg2, PromptEvent(0, o.llmOk, o.raw))
           summary == cleanMarkdownResponse(o.raw)
           issueTitle == DigestText.ExecTitlePre \o DigestText.Today
           labels == <<DigestText.Automated, DigestText.ExecutiveSummaryLabel, DigestText.Report>>
           metrics == [total_issues |-> Len(issues), open |-> Len(issues),
                       completed |-> Len(closedIssues), blocked |-> blockedCount(issues)]
       IN IF ~o.openOk
            THEN run' = DgError /\ log' = lg1 /\ store' = store
          ELSE IF ~o.llmOk
            THEN run' = DgError /\ log' = lg3 /\ store' = store
          ELSE IF o.createOk
            THEN /\ store' = CreateIssue(store, issueTitle, summary, labels)
                 /\ log' = Append(lg3, CreateIssueEvent(issueTitle, summary, labels, TRUE))
                 /\ run' = [run EXCEPT !.pc = "returned",
                              !.result = [agent |-> run.agent.Name, status |-> "completed",
                                          summary |-> summary, issue_created |-> TRUE,
                                          created_issue_number |-> Len(store) + 1,
                                          metrics |-> metrics,
                                          message |-> DigestText.ExecCreatedPre \o Itoa(Len(store) + 1)
                                                        \o DigestText.CreatedPost]]
          ELSE /\ store' = store
               /\ log' = Append(lg3, CreateIssueEvent(issueTitle, summary, labels, FALSE))
               /\ run' = DgError
  /\ UNCHANGED <<cf, mg, gen>>

\* executeExecutiveSummary: the open issues (an error ends the call), the
\* closed issues (an error counts as none), the Prompt call (an error ends
\* the call), the cleaned text, the CreateIssue call and the result with or
\* without the created issue
ExecuteExecutiveSummary ==
  /\ run.pc = "idle"
  /\ Execute(run.agent.Name) = "executeExecutiveSummary"
  /\ \E o \in DgOutcomes :
       LET issues == ListIssuesIn(store, "open")
           closedIssues == IF o.closedOk THEN ListIssuesIn(store, "closed") ELSE <<>>
           lg1 == Append(log, Event("ListIssues", 0, o.openOk))
           lg2 == Append(lg1, Event("ListClosedIssues", 0, o.closedOk))
           lg3 == Append(lg2, PromptEvent(0, o.llmOk, o.raw))
           summary == cleanMarkdownResponse(o.raw)
           issueTitle == DigestText.ExecTitlePre \o DigestText.Today
           labels == <<DigestText.Automated, DigestText.ExecutiveSummaryLabel, DigestText.Report>>
           metrics == [total_issues |-> Len(issues), open |-> Len(issues),
                       completed |-> Len(closedIssues), blocked |-> blockedCount(issues)]
       IN IF ~o.openOk
            THEN run' = DgError /\ log' = lg1 /\ store' = store
          ELSE IF ~o.llmOk
            THEN run' = DgError /\ log' = lg3 /\ store' = store
          ELSE IF o.createOk
            THEN /\ store' = CreateIssue(store, issueTitle, summary, labels)
                 /\ log' = Append(lg3, CreateIssueEvent(issueTitle, summary, labels, TRUE))
                 /\ run' = [run EXCEPT !.pc = "returned",
                              !.result = [agent |-> run.agent.Name, status |-> "completed",
                                          summary |-> summary, issue_created |-> TRUE,
                                          created_issue_number |-> Len(store) + 1,
                                          metrics |-> metrics,
                                          message |-> DigestText.ExecCreatedPre \o Itoa(Len(store) + 1)
                                                        \o DigestText.CreatedPost]]
          ELSE /\ store' = store
               /\ log' = Append(lg3, CreateIssueEvent(issueTitle, summary, labels, FALSE))
               /\ run' = [run EXCEPT !.pc = "returned",
                            !.result = [agent |-> run.agent.Name, status |-> "completed",
                                        summary |-> summary, metrics |-> metrics,
                                        message |-> DigestText.ExecNotCreated]]
  /\ UNCHANGED <<cf, mg, gen>>

\* executeProgressReporter: the open and the closed issues (an error on
\* either ends the call), the Prompt call (an error ends the call), the
\* cleaned text, the CreateIssue call and the result with or without the
\* created issue; the floating-point entries completion_rate and velocity of
\* the metrics are left out
ExecuteProgressReporter ==
  /\ run.pc = "idle"
  /\ Execute(run.agent.Name) = "executeProgressReporter"
  /\ \E o \in DgOutcomes :
       LET openIssues == ListIssuesIn(store, "open")
           closedIssues == ListIssuesIn(store, "closed")
           lg1 == Append(log, Event("ListIssues", 0, o.openOk))
           lg2 == Append(lg1, Event("ListClosedIssues", 0, o.closedOk))
           lg3 == Append(lg2, PromptEvent(0, o.llmOk, o.raw))
           report == cleanMarkdownResponse(o.raw)
           issueTitle == DigestText.ProgTitlePre \o DigestText.Today
           labels == <<DigestText.Automated, DigestText.ProgressReportLabel, DigestText.Report>>
           metrics == [total_tasks |-> Len(openIssues) + Len(closedIssues),
                       completed |-> Len(closedIssues), blocked |-> blockedCount(openIssues)]
       IN IF ~o.openOk
            THEN run' = DgError /\ log' = lg1 /\ store' = store
          ELSE IF ~o.closedOk
            THEN run' = DgError /\ log' = lg2 /\ store' = store
          ELSE IF ~o.llmOk
            THEN run' = DgError /\ log' = lg3 /\ store' = store
          ELSE IF o.createOk
            THEN /\ store' = CreateIssue(store, issueTitle, report, labels)
                 /\ log' = Append(lg3, CreateIssueEvent(issueTitle, report, labels, TRUE))
                 /\ run' = [run EXCEPT !.pc = "returned",
                              !.result = [agent |-> run.agent.Name, status |-> "completed",
                                          report |-> report, issue_created |-> TRUE,
                                          created_issue_number |-> Len(store) + 1,
                                          metrics |-> metrics,
                                          message |-> DigestText.ProgCreatedPre \o Itoa(Len(store) + 1)
                                                        \o DigestText.CreatedPost]]
          ELSE /\ store' = store
               /\ log' = Append(lg3, CreateIssueEvent(issueTitle, report, labels, FALSE))
               /\ run' = [run EXCEPT !.pc = "returned",
                            !.result = [agent |-> run.agent.Name, status |-> "completed",
                                        report |-> report, metrics |-> metrics,
                                        message |-> DigestText.ProgNotCreated]]
  /\ UNCHANGED <<cf, mg, gen>>

SpecDigest ==
  /\ InitDigest
  /\ [][\/ ExecuteExecutiveSummary
         \/ ExecuteProgressReporter]_vars

(***************************************************************************)
(* Properties of the digest generators                                     *)
(***************************************************************************)
DgLogged(op) == {k \in 1..Len(log) : log[k].op = op}

\* the text the call generated: the cleaned completion of its Prompt call
DgGenerated == {cleanMarkdownResponse(log[k].raw) : k \in {j \in DgLogged("Prompt") : log[j].ok}}

DgTypeLabel ==
  IF run.agent.Name = ExecuteText.ExecutiveSummaryGenerator THEN DigestText.ExecutiveSummaryLabel
  ELSE DigestText.ProgressReportLabel

\* the generated text held by the result, under "summary" or "report"
DgResultText ==
  IF run.agent.Name = ExecuteText.ExecutiveSummaryGenerator THEN run.result.summary ELSE run.result.report

\* C15: a returned digest call made one CreateIssue call if its Prompt call
\* succeeded, with the labels "automated" and the label of its type and
\* with the generated text as body; when that CreateIssue call failed the
\* call returned a result holding the generated text and no error; when the
\* Prompt call failed (or was not reached) no CreateIssue call was made, the
\* store is as it was and, with the Prompt failed, an error was returned.
C15_DigestCreatesOnce ==
  run.pc = "returned" =>
    /\ DgGenerated # {} =>
         /\ Cardinality(DgLogged("CreateIssue")) = 1
         /\ \A k \in DgLogged("CreateIssue") :
              /\ {DigestText.Automated, DgTypeLabel} \subseteq {log[k].labels[j] : j \in 1..Len(log[k].labels)}
              /\ DgGenerated = {log[k].body}
              /\ ~run.err
              /\ DgGenerated = {DgResultText}
              /\ log[k].ok <=> "issue_created" \in DOMAIN run.result
              /\ log[k].ok <=> (store # <<>> /\ store[Len(store)].Body = log[k].body
                                  /\ store[Len(store)].Labels = log[k].labels)
    /\ DgGenerated = {} => DgLogged("CreateIssue") = {} /\ run.err

\* a progress report whose issue could not be created: the report is
\* returned without error
C15_Witness ==
  /\ run.pc = "returned"
  /\ run.agent.Name = ExecuteText.ProgressReporter
  /\ ~run.err
  /\ \E k \in DgLogged("CreateIssue") : ~log[k].ok /\ log[k].body = run.result.report
  /\ run.result.report = <<"S","u","m","m","a","r","y",":"," ","m","e","s","h">>
  /\ "issue_created" \notin DOMAIN run.result
(***************************************************************************)
(* The stale-task check: Monitor.CheckStaleTasks and executeMonitor        *)
(***************************************************************************)

NumMonIssues == 2

\* time.Now(), in days
NowDay == 10

\* "staleThresholdDays := 7"
DefaultStaleDays == 7

\* the clean-up of a completion: trim, and drop the first and last line of
\* a fenced completion of more than two lines
cleanMessage(raw) ==
  LET trimmed == TrimSpace(raw)
      lines == SplitLines(trimmed)
  IN IF HasPrefix(trimmed, ValidatorText.Fence) /\ Len(lines) > 2
       THEN Join(SubSeq(lines, 2, Len(lines) - 1), <<"\n">>)
       ELSE trimmed

\* int(time.Since(issue.UpdatedAt).Hours() / 24)
daysStaleOf(issue) == NowDay - issue.UpdatedAt

\* issue.UpdatedAt.Before(time.Now().AddDate(0, 0, -days))
isStale(issue, days) == issue.UpdatedAt < NowDay - days

\* the comment of Monitor.handleStaleTask
cliStaleMessage(issue, llmOk, raw) ==
  IF ~llmOk
    THEN CliMonitorText.CliHeyPre \o issue.Assignee \o MonitorText.HeyMid \o Itoa(daysStaleOf(issue)) \o CliMonitorText.CliHeyPost
    ELSE CliMonitorText.CliAgentPrefix \o cleanMessage(raw)

\* the comment of executeMonitor
pluginStaleMessage(agent, issue, llmOk, raw) ==
  LLMActionText.Robot \o agent.Name \o MonitorText.MonNameTail
    \o (IF ~llmOk
          THEN MonitorText.HeyPre \o issue.Assignee \o MonitorText.HeyMid \o Itoa(daysStaleOf(issue)) \o MonitorText.HeyPost
          ELSE cleanMessage(raw))

\* the stale_threshold_days entry of the agent's configuration
staleThresholdDaysOf(config) ==
  IF config.kind \in {"int", "float"} THEN config.val ELSE DefaultStaleDays

MonListIssues(st) ==
  [n \in 1..Len(st) |-> [Number |-> n, Assignee |-> st[n].Assignee, UpdatedAt |-> st[n].UpdatedAt]]

\* what the collaborators do for one issue: the Prompt call and its
\* completion, the AddComment call
MonOutcomes ==
  {o \in [llmOk : BOOLEAN, raw : {Completions.Plain, Completions.FencedSummary}, comOk : BOOLEAN] : o.llmOk \/ o.raw = Completions.Plain}

MonStart(mode, days, config, param) ==
  [pc |-> "idle", mode |-> mode, staleThresholdDays |-> days,
   agent |-> [Name |-> ExecuteText.StaleTaskMonitor, Config |-> config], param |-> param,
   issuesToCheck |-> <<>>, checkedIssue |-> 0, i |-> 1,
   staleIssues |-> <<>>, commentedIssues |-> <<>>, errors |-> <<>>,
   result |-> <<>>, err |-> FALSE]

\* the open issues of the store are unassigned or assigned, and updated
\* long ago, three days ago or lately
InitMonitor ==
  /\ cf = Idle
  /\ mg = Idle
  /\ gen = Idle
  /\ log = <<>>
  /\ store \in [1..NumMonIssues ->
                [Assignee : {<<>>, IssueText.Bob}, UpdatedAt : {2, 3, 8}, Comments : {<<>>}]]
  /\ \/ \E days \in {DefaultStaleDays, 3} :
          run = MonStart("cli", days, [kind |-> "none", val |-> 0], 0)
     \/ \E config \in {[kind |-> "none", val |-> 0], [kind |-> "int", val |-> 3]},
             param \in 0..(NumMonIssues + 1) :
          run = MonStart("plugin", 0, config, param)

\* Monitor.CheckStaleTasks up to its loop
CheckStaleTasksStart ==
  /\ run.pc = "idle"
  /\ run.mode = "cli"
  /\ \E listOk \in BOOLEAN :
       /\ log' = Append(log, Event("ListIssues", 0, listOk))
       /\ run' = IF listOk THEN [run EXCEPT !.pc = "loop", !.issuesToCheck = MonListIssues(store)]
                 ELSE [run EXCEPT !.pc = "returned", !.err = TRUE]
  /\ UNCHANGED <<store, cf, mg, gen>>

\* a slip that ends the check at the first failed comment
CheckStaleTasksIssue_StopOnError ==
  /\ run.pc = "loop"
  /\ run.mode = "cli"
  /\ run.i <= Len(run.issuesToCheck)
  /\ LET issue == run.issuesToCheck[run.i]
     IN IF issue.Assignee = <<>> \/ ~isStale(issue, run.staleThresholdDays)
          THEN /\ run' = [run EXCEPT !.i = @ + 1]
               /\ UNCHANGED <<store, log>>
          ELSE \E o \in MonOutcomes :
               \E message \in {cliStaleMessage(issue, o.llmOk, o.raw)} :
                 /\ log' = Append(Append(log, PromptEvent(issue.Number, o.llmOk, o.raw)),
                                  CommentEvent(issue.Number, o.comOk, message))
                 /\ store' = IF o.comOk THEN AddComment(store, issue.Number, message) ELSE store
                 /\ run' = IF o.comOk THEN [run EXCEPT !.i = @ + 1]
                           ELSE [run EXCEPT !.pc = "returned", !.err = TRUE]
  /\ UNCHANGED <<cf, mg, gen>>

\* one iteration of the loop of Monitor.CheckStaleTasks, with handleStaleTask:
\* the Prompt call, the message and the AddComment call, whose error is
\* printed
CheckStaleTasksIssue ==
  /\ run.pc = "loop"
  /\ run.mode = "cli"
  /\ run.i <= Len(run.issuesToCheck)
  /\ LET issue == run.issuesToCheck[run.i]
     IN IF issue.Assignee = <<>> \/ ~isStale(issue, run.staleThresholdDays)
          THEN /\ run' = [run EXCEPT !.i = @ + 1]
               /\ UNCHANGED <<store, log>>
          ELSE \E o \in MonOutcomes :
               \E message \in {cliStaleMessage(issue, o.llmOk, o.raw)} :
                 /\ log' = Append(Append(log, PromptEvent(issue.Number, o.llmOk, o.raw)),
                                  CommentEvent(issue.Number, o.comOk, message))
                 /\ store' = IF o.comOk THEN AddComment(store, issue.Number, message) ELSE store
                 /\ run' = [run EXCEPT !.i = @ + 1]
  /\ UNCHANGED <<cf, mg, gen>>

CheckStaleTasksReturn ==
  /\ run.pc = "loop"
  /\ run.mode = "cli"
  /\ run.i > Len(run.issuesToCheck)
  /\ run' = [run EXCEPT !.pc = "returned"]
  /\ UNCHANGED <<store, log, cf, mg, gen>>

\* executeMonitor up to its loop: the threshold, then the requested issue or
\* the open issues
ExecuteMonitorStart ==
  /\ run.pc = "idle"
  /\ run.mode = "plugin"
  /\ Execute(run.agent.Name) = "executeMonitor"
  /\ \E x \in {extractIssueNumber(run.param)} :
       IF x.ok
         THEN \E getOk \in GetIssueOutcomes(store, x.num) :
                /\ log' = Append(log, Event("GetIssue", x.num, getOk))
                /\ run' = IF getOk
                            THEN [run EXCEPT !.pc = "loop",
                                    !.staleThresholdDays = staleThresholdDaysOf(run.agent.Config),
                                    !.checkedIssue = x.num,
                                    !.issuesToCheck = <<MonListIssues(store)[x.num]>>]
                            ELSE [run EXCEPT !.pc = "returned", !.err = TRUE]
         ELSE \E listOk \in BOOLEAN :
                /\ log' = Append(log, Event("ListIssues", 0, listOk))
                /\ run' = IF listOk
                            THEN [run EXCEPT !.pc = "loop",
                                    !.staleThresholdDays = staleThresholdDaysOf(run.agent.Config),
                                    !.issuesToCheck = MonListIssues(store)]
                            ELSE [run EXCEPT !.pc = "returned", !.err = TRUE]
  /\ UNCHANGED <<store, cf, mg, gen>>

\* one iteration of the loop of executeMonitor
ExecuteMonitorIssue ==
  /\ run.pc = "loop"
  /\ run.mode = "plugin"
  /\ run.i <= Len(run.issuesToCheck)
  /\ LET issue == run.issuesToCheck[run.i]
     IN IF issue.Assignee = <<>> \/ ~isStale(issue, run.staleThresholdDays)
          THEN /\ run' = [run EXCEPT !.i = @ + 1]
               /\ UNCHANGED <<store, log>>
          ELSE \E o \in MonOutcomes :
               \E message \in {pluginStaleMessage(run.agent, issue, o.llmOk, o.raw)} :
                 /\ log' = Append(Append(log, PromptEvent(issue.Number, o.llmOk, o.raw)),
                                  CommentEvent(issue.Number, o.comOk, message))
                 /\ store' = IF o.comOk THEN AddComment(store, issue.Number, message) ELSE store
                 /\ run' = [run EXCEPT
                              !.i = @ + 1,
                              !.staleIssues = Append(@, issue.Number),
                              !.commentedIssues = IF o.comOk THEN Append(@, issue.Number) ELSE @,
                              !.errors = IF o.comOk THEN @ ELSE Append(@, issue.Number)]
  /\ UNCHANGED <<cf, mg, gen>>

\* the return of executeMonitor, with its result (the title of a requested
\* issue is left out)
ExecuteMonitorReturn ==
  /\ run.pc = "loop"
  /\ run.mode = "plugin"
  /\ run.i > Len(run.issuesToCheck)
  /\ run' = [run EXCEPT !.pc = "returned", !.result =
       LET r == run
           base == [agent |-> r.agent.Name, status |-> "monitored",
                    total_checked |-> Len(r.issuesToCheck),
                    stale_issues |-> r.staleIssues,
                    commented_issues |-> r.commentedIssues,
                    stale_threshold |-> Itoa(r.staleThresholdDays) \o MonitorText.DaysSuffix]
           scoped ==
             IF r.checkedIssue # 0
               THEN IF r.staleIssues # <<>>
                      THEN Put(Put(Put(Put(base, "issue", r.checkedIssue), "is_stale", TRUE),
                                   "days_stale", daysStaleOf(r.issuesToCheck[1])),
                               "message", MonitorText.IssueHash \o Itoa(r.checkedIssue) \o MonitorText.IsStaleCommented)
                      ELSE Put(Put(Put(base, "issue", r.checkedIssue), "is_stale", FALSE),
                               "message", MonitorText.IssueHash \o Itoa(r.checkedIssue) \o MonitorText.IsNotStale)
               ELSE Put(Put(base, "total_issues", Len(r.issuesToCheck)),
                        "message", MonitorText.Checked \o Itoa(Len(r.issuesToCheck)) \o MonitorText.IssuesFound
                                     \o Itoa(Len(r.staleIssues)) \o MonitorText.StaleCommentedOn
                                     \o Itoa(Len(r.commentedIssues)))
       IN IF r.errors # <<>> THEN Put(scoped, "errors", r.errors) ELSE scoped]
  /\ UNCHANGED <<store, log, cf, mg, gen>>

NextMonitor ==
  \/ CheckStaleTasksStart
  \/ CheckStaleTasksIssue
  \/ CheckStaleTasksReturn
  \/ ExecuteMonitorStart
  \/ ExecuteMonitorIssue
  \/ ExecuteMonitorReturn

SpecMonitor == InitMonitor /\ [][NextMonitor]_vars

(***************************************************************************)
(* Properties of the stale-task check                                      *)
(***************************************************************************)
\* the check went over the open issues and has finished
MonCheckedAll == run.pc = "returned" /\ ~run.err /\ run.checkedIssue = 0

\* issue n is assigned and was last updated before the threshold
MonOverdue(n) ==
  /\ store[n].Assignee # <<>>
  /\ store[n].UpdatedAt < NowDay - run.staleThresholdDays

MonAttempts(n) == {k \in 1..Len(log) : log[k].op = "AddComment" /\ log[k].issue = n}

\* C17: in a stale-task check over the open issues, at every moment only
\* assigned issues last updated before the threshold have add-comment
\* attempts, and a posted comment is what such an attempt delivered; when the
\* check has finished each such issue has had exactly one attempt and every
\* other issue none, whatever attempts failed: the check ends in an error
\* only when its first call, the listing or the look-up of a requested
\* issue, failed.
C17_OneCommentPerStaleIssue ==
  run.checkedIssue = 0 =>
    /\ (run.pc = "returned" /\ run.err) =>
         /\ Len(log) = 1
         /\ log[1] \in {Event("ListIssues", 0, FALSE), Event("GetIssue", run.param, FALSE)}
    /\ \A n \in 1..NumMonIssues :
         /\ MonAttempts(n) # {} => MonOverdue(n)
         /\ Cardinality(MonAttempts(n)) <= 1
         /\ Len(store[n].Comments) = Cardinality({k \in MonAttempts(n) : log[k].ok})
    /\ MonCheckedAll =>
         \A n \in 1..NumMonIssues :
           Cardinality(MonAttempts(n)) = IF MonOverdue(n) THEN 1 ELSE 0

\* a finished check in which the attempt on the first issue failed and the
\* second issue was commented, both being overdue
C17_Witness ==
  /\ MonCheckedAll
  /\ NumMonIssues >= 2
  /\ MonOverdue(1) /\ MonOverdue(2)
  /\ \E k \in MonAttempts(1) : ~log[k].ok
  /\ \E k \in MonAttempts(2) : log[k].ok
  /\ Len(store[2].Comments) = 1
(***************************************************************************)
(* Client.AddLabel and ProjectClient.AddLabel on one issue                 *)
(***************************************************************************)
MaxLabelCalls == 2

MaxInitLabels == 2

\* the label names in use
LabelNames == {RulesText.AgentValidator, IssueText.PriorityHigh, DigestText.Report}

\* the Issues.Edit request with a label list, which replaces the labels
EditEvent(n, ok, labels) == [op |-> "Issues.Edit", issue |-> n, ok |-> ok, labels |-> labels]

\* the issue carries no label name twice
InitLabel ==
  /\ cf = Idle
  /\ mg = Idle
  /\ gen = Idle
  /\ log = <<>>
  /\ \E labels \in SeqsUpTo(LabelNames, MaxInitLabels), mode \in {"repo", "project"} :
       /\ \A i \in 1..Len(labels) : \A j \in 1..Len(labels) : i # j => labels[i] # labels[j]
       /\ store = <<[Labels |-> labels]>>
       /\ run = [pc |-> "ready", mode |-> mode, calls |-> 0, first |-> labels,
                 label |-> <<>>, ret |-> "none", added |-> {}]

\* a slip that writes the new label alone
ClientAddLabel_Replace ==
  /\ run.pc = "ready"
  /\ run.mode = "repo"
  /\ run.calls < MaxLabelCalls
  /\ \E label \in LabelNames, getOk \in BOOLEAN, editOk \in BOOLEAN :
       LET existing == store[1].Labels
           lg1 == Append(log, Event("Issues.Get", 1, getOk))
           labels == <<label>>
           called == [run EXCEPT !.calls = @ + 1, !.label = label]
       IN IF ~getOk
            THEN /\ run' = [called EXCEPT !.ret = "err"]
                 /\ log' = lg1
                 /\ store' = store
          ELSE IF \E j \in 1..Len(existing) : existing[j] = label
            THEN /\ run' = [called EXCEPT !.ret = "nil", !.added = @ \cup {label}]
                 /\ log' = lg1
                 /\ store' = store
          ELSE /\ log' = Append(lg1, EditEvent(1, editOk, labels))
               /\ store' = IF editOk THEN [store EXCEPT ![1].Labels = labels] ELSE store
               /\ run' = IF editOk THEN [called EXCEPT !.ret = "nil", !.added = @ \cup {label}]
                         ELSE [called EXCEPT !.ret = "err"]
  /\ UNCHANGED <<cf, mg, gen>>

\* Client.AddLabel: reads the issue, returns when the label is present,
\* otherwise sends the existing labels followed by the new one
ClientAddLabel ==
  /\ run.pc = "ready"
  /\ run.mode = "repo"
  /\ run.calls < MaxLabelCalls
  /\ \E label \in LabelNames, getOk \in BOOLEAN, editOk \in BOOLEAN :
       LET existing == store[1].Labels
           lg1 == Append(log, Event("Issues.Get", 1, getOk))
           labels == Append(existing, label)
           called == [run EXCEPT !.calls = @ + 1, !.label = label]
       IN IF ~getOk
            THEN /\ run' = [called EXCEPT !.ret = "err"]
                 /\ log' = lg1
                 /\ store' = store
          ELSE IF \E j \in 1..Len(existing) : existing[j] = label
            THEN /\ run' = [called EXCEPT !.ret = "nil", !.added = @ \cup {label}]
                 /\ log' = lg1
                 /\ store' = store
          ELSE /\ log' = Append(lg1, EditEvent(1, editOk, labels))
               /\ store' = IF editOk THEN [store EXCEPT ![1].Labels = labels] ELSE store
               /\ run' = IF editOk THEN [called EXCEPT !.ret = "nil", !.added = @ \cup {label}]
                         ELSE [called EXCEPT !.ret = "err"]
  /\ UNCHANGED <<cf, mg, gen>>

\* ProjectClient.AddLabel: the same steps on the issue of the given
\* repository
ProjectClientAddLabel ==
  /\ run.pc = "ready"
  /\ run.mode = "project"
  /\ run.calls < MaxLabelCalls
  /\ \E label \in LabelNames, getOk \in BOOLEAN, editOk \in BOOLEAN :
       LET existing == store[1].Labels
           lg1 == Append(log, Event("Issues.Get", 1, getOk))
           labels == Append(existing, label)
           called == [run EXCEPT !.calls = @ + 1, !.label = label]
       IN IF ~getOk
            THEN /\ run' = [called EXCEPT !.ret = "err"]
                 /\ log' = lg1
                 /\ store' = store
          ELSE IF \E j \in 1..Len(existing) : existing[j] = label
            THEN /\ run' = [called EXCEPT !.ret = "nil", !.added = @ \cup {label}]
                 /\ log' = lg1
                 /\ store' = store
          ELSE /\ log' = Append(lg1, EditEvent(1, editOk, labels))
               /\ store' = IF editOk THEN [store EXCEPT ![1].Labels = labels] ELSE store
               /\ run' = IF editOk THEN [called EXCEPT !.ret = "nil", !.added = @ \cup {label}]
                         ELSE [called EXCEPT !.ret = "err"]
  /\ UNCHANGED <<cf, mg, gen>>

SpecLabel ==
  /\ InitLabel
  /\ [][\/ ClientAddLabel
         \/ ProjectClientAddLabel]_vars

(***************************************************************************)
(* Properties of AddLabel                                                  *)
(***************************************************************************)
LabelSet(labels) == {labels[j] : j \in 1..Len(labels)}

\* the Issues.Edit requests sent during a step
LbNewEdits == {log'[k] : k \in {j \in (Len(log) + 1)..Len(log') : log'[j].op = "Issues.Edit"}}

\* C18: a call of AddLabel with a label the issue carries sends no write and
\* leaves the issue as it is; a call with another label sends one write, of
\* the existing labels followed by the new one, once the issue was read; a
\* call that returns no error leaves the label set as it was united with the
\* label, a call that returns an error leaves it as it was, and no call
\* removes a label: after any calls the label set is the first one united
\* with the labels of the calls that returned no error.
C18_AddLabelIdempotent ==
  [][\A before \in {store[1].Labels} :
       /\ run'.label \in LabelSet(before) => (LbNewEdits = {} /\ store' = store)
       /\ \A e \in LbNewEdits : e.labels = Append(before, run'.label)
       /\ (run'.label \notin LabelSet(before) /\ log'[Len(log) + 1].ok) =>
            Cardinality(LbNewEdits) = 1 /\ Len(log') = Len(log) + 2
       /\ run'.ret = "nil" => LabelSet(store'[1].Labels) = LabelSet(before) \cup {run'.label}
       /\ run'.ret = "err" => store' = store
       /\ LabelSet(before) \subseteq LabelSet(store'[1].Labels)
       /\ LabelSet(store'[1].Labels) = LabelSet(run'.first) \cup run'.added]_vars

\* two calls with one label on an issue carrying another label: the first
\* wrote both labels, the second wrote nothing
C18_Witness ==
  /\ run.calls = 2
  /\ run.ret = "nil"
  /\ run.first = <<IssueText.PriorityHigh>>
  /\ run.added = {RulesText.AgentValidator}
  /\ store[1].Labels = <<IssueText.PriorityHigh, RulesText.AgentValidator>>
  /\ log = <<Event("Issues.Get", 1, TRUE),
             EditEvent(1, TRUE, <<IssueText.PriorityHigh, RulesText.AgentValidator>>),
             Event("Issues.Get", 1, TRUE)>>
(***************************************************************************)
(* UnifiedClientWrapper.GetIssue in project mode                           *)
(***************************************************************************)
NumRepos == 3

\* the issue of repository r, as GetProjectIssue returns it
RepoIssue(r) == [kind |-> "issue", repo |-> r]

\* the outcomes of GetProjectIssue on a repository: an error when it holds
\* no issue of the number, the issue or an error when it holds one
ProbeOutcomes(repo) == IF repo.Holds THEN BOOLEAN ELSE {FALSE}

\* a call names one of the configured repositories (target) or none (0)
InitFind ==
  /\ cf = Idle
  /\ mg = Idle
  /\ gen = Idle
  /\ log = <<>>
  /\ store \in [1..NumRepos -> [Holds : BOOLEAN]]
  /\ \E target \in 0..NumRepos :
       run = [pc |-> "idle", target |-> target, i |-> 1, ret |-> [kind |-> "none"]]

\* GetIssue with owner and repo: one GetProjectIssue call
GetIssueInRepo ==
  /\ run.pc = "idle"
  /\ run.target > 0
  /\ \E ok \in ProbeOutcomes(store[run.target]) :
       /\ log' = Append(log, Event("GetProjectIssue", run.target, ok))
       /\ run' = [run EXCEPT !.pc = "returned",
                    !.ret = IF ok THEN RepoIssue(run.target) ELSE [kind |-> "error"]]
  /\ UNCHANGED <<store, cf, mg, gen>>

\* GetIssue without owner and repo: findIssueAcrossRepos is entered
GetIssueSearch ==
  /\ run.pc = "idle"
  /\ run.target = 0
  /\ run' = [run EXCEPT !.pc = "search"]
  /\ UNCHANGED <<store, log, cf, mg, gen>>

\* a slip that gives up at the first failed look-up
FindIssueProbe_StopOnError ==
  /\ run.pc = "search"
  /\ run.i <= NumRepos
  /\ \E ok \in ProbeOutcomes(store[run.i]) :
       /\ log' = Append(log, Event("GetProjectIssue", run.i, ok))
       /\ run' = IF ok THEN [run EXCEPT !.pc = "returned", !.ret = RepoIssue(run.i)]
                 ELSE [run EXCEPT !.pc = "returned", !.ret = [kind |-> "not found"]]
  /\ UNCHANGED <<store, cf, mg, gen>>

\* one iteration of the loop of findIssueAcrossRepos: the look-up in the
\* next repository returns the issue, or fails and the loop goes on
FindIssueProbe ==
  /\ run.pc = "search"
  /\ run.i <= NumRepos
  /\ \E ok \in ProbeOutcomes(store[run.i]) :
       /\ log' = Append(log, Event("GetProjectIssue", run.i, ok))
       /\ run' = IF ok THEN [run EXCEPT !.pc = "returned", !.ret = RepoIssue(run.i)]
                 ELSE [run EXCEPT !.i = @ + 1]
  /\ UNCHANGED <<store, cf, mg, gen>>

\* the return after the loop: "issue #%d not found in any repository"
FindIssueNotFound ==
  /\ run.pc = "search"
  /\ run.i > NumRepos
  /\ run' = [run EXCEPT !.pc = "returned", !.ret = [kind |-> "not found"]]
  /\ UNCHANGED <<store, log, cf, mg, gen>>

SpecFind ==
  /\ InitFind
  /\ [][\/ GetIssueInRepo
         \/ GetIssueSearch
         \/ FindIssueProbe
         \/ FindIssueNotFound]_vars

(***************************************************************************)
(* Properties of the search across repositories                            *)
(***************************************************************************)
FdSearched == run.pc = "returned" /\ run.target = 0

FdHolders == {r \in 1..NumRepos : store[r].Holds}

\* the look-ups made are those of repositories 1..n in order, all failed
\* but possibly the last
FdProbedInOrder(n, lastOk) ==
  /\ Len(log) = n
  /\ \A k \in 1..n : log[k] = Event("GetProjectIssue", k, IF k = n THEN lastOk ELSE FALSE)

MaxFixCalls == 2

\* Loader.Render: the text of the template's nodes, or an error when the
\* template is not registered or a node fails to execute
Render(templates, templateName, data) ==
  IF templateName \notin DOMAIN templates THEN [text |-> <<>>, err |-> TRUE]
  ELSE LET tmpl == templates[templateName]
       IN IF \E k \in 1..Len(tmpl) : tmpl[k].kind = "bad"
            THEN [text |-> <<>>, err |-> TRUE]
            ELSE [text |-> Join([k \in 1..Len(tmpl) |->
                                   IF tmpl[k].kind = "text" THEN tmpl[k].s
                                   ELSE data[tmpl[k].field]], <<>>),
                  err |-> FALSE]

\* a slip that falls back to the inline prompt only when no template is
\* registered
fixPrompt_NoFallbackAfterRender(v, issue, violations) ==
  IF "validator" \in DOMAIN v.templates
    THEN [prompt |->
            Render(v.templates, "validator",
                   [Title |-> issue.Title, Body |-> issue.Body,
                    Guidelines |-> v.guidelines.RawContent,
                    Instructions |-> v.guidelines.Instructions]).text,
          source |-> "template"]
    ELSE [prompt |-> ValidatorText.PromptHead, source |-> "fallback"]

\* the prompt fixWithLLM builds, and the branch that built it
fixPrompt(v, issue, violations) ==
  LET guidelinesText == IF v.guidelines.nil THEN <<>> ELSE v.guidelines.RawContent
      instructionsText == IF v.guidelines.nil THEN <<>> ELSE v.guidelines.Instructions
      data == [Title |-> issue.Title, Body |-> issue.Body,
               RequiredSections |-> Join(v.rules.RequiredSections, <<",", " ">>),
               LabelPrefix |-> v.rules.LabelPrefix,
               Guidelines |-> guidelinesText, Instructions |-> instructionsText]
      rendered == IF "validator" \in DOMAIN v.templates
                    THEN Render(v.templates, "validator", data)
                    ELSE [text |-> <<>>, err |-> TRUE]
      prompt == IF rendered.err THEN <<>> ELSE rendered.text
      fallbackGuidelines ==
        IF v.guidelines.nil THEN <<>>
        ELSE IF v.guidelines.Instructions # <<>>
          THEN ValidatorText.PromptInstructions \o v.guidelines.Instructions
          ELSE ValidatorText.PromptGuidelines \o v.guidelines.RawContent
  IN IF prompt # <<>> THEN [prompt |-> prompt, source |-> "template"]
     ELSE [prompt |-> ValidatorText.PromptHead \o fallbackGuidelines
                      \o ValidatorText.PromptTask \o issue.Title
                      \o ValidatorText.PromptBody \o issue.Body
                      \o ValidatorText.PromptViolations \o Join(violations, <<"\n">>)
                      \o ValidatorText.PromptFormat \o Itoa(v.rules.MinDescriptionLength)
                      \o ValidatorText.PromptSections
                      \o Join(v.rules.RequiredSections, <<",", " ">>)
                      \o ValidatorText.PromptLabel \o v.rules.LabelPrefix
                      \o ValidatorText.PromptTail,
           source |-> "fallback"]

\* the issues handed to fixWithLLM: each breaks a rule of the validator
FixIssues(rules) ==
  {issue \in [Title : {<<>>, <<"T">>}, Body : {<<>>, <<"a">>, <<"b">>}, Labels : {<<>>}] :
     checkFormat(issue, rules) # <<>>}

\* a validator as NewValidator builds it: the templates the loader found
\* (the prompts directory without or with a validator.md), the guidelines
\* (nil, or raw content with or without instructions) and the rules
InitPrompt ==
  /\ cf = Idle
  /\ mg = Idle
  /\ gen = Idle
  /\ log = <<>>
  /\ \E tmpl \in {<<>>,
                  <<[kind |-> "text", s |-> <<"F", "i", "x", " ">>, field |-> ""], [kind |-> "field", s |-> <<>>, field |-> "Title"]>>,
                  <<[kind |-> "field", s |-> <<>>, field |-> "Title"]>>,
                  <<[kind |-> "field", s |-> <<>>, field |-> "Guidelines"], [kind |-> "field", s |-> <<>>, field |-> "Instructions"]>>,
                  <<[kind |-> "text", s |-> <<"F", "i", "x", " ">>, field |-> ""], [kind |-> "bad", s |-> <<>>, field |-> "Title"]>>},
        registered \in BOOLEAN,
        guidelines \in {[nil |-> TRUE, RawContent |-> <<>>, Instructions |-> <<>>],
                        [nil |-> FALSE, RawContent |-> <<"g">>, Instructions |-> <<>>],
                        [nil |-> FALSE, RawContent |-> <<"g">>, Instructions |-> <<"i">>]} :
       /\ registered \/ tmpl = <<>>
       /\ store = [templates |-> IF registered
                                   THEN [monitor |-> <<>>, validator |-> tmpl]
                                   ELSE [monitor |-> <<>>],
                   guidelines |-> guidelines,
                   rules |-> [MinDescriptionLength |-> 1, RequiredSections |-> <<<<"a">>>>,
                              RequireLabels |-> FALSE, LabelPrefix |-> <<"p">>]]
  /\ \E issue \in FixIssues(store.rules) :
       run = [pc |-> "called", issue |-> issue, calls |-> 0,
              prompt |-> <<>>, source |-> "none", err |-> FALSE, raw |-> <<>>, ret |-> <<>>]

\* fixWithLLM: builds the prompt, sends it to the completion service and
\* cleans the completion
FixWithLLM ==
  /\ run.pc = "called"
  /\ \E p \in {fixPrompt(store, run.issue, checkFormat(run.issue, store.rules))},
        o \in {[ok |-> FALSE, raw |-> <<>>]}
               \cup [ok : {TRUE},
                     raw : {Completions.FixPlain, Completions.FixFenced, Completions.Unclosed,
                            Completions.FencePair, Completions.FencedThenText,
                            Completions.Padded}] :
       /\ log' = Append(log, [op |-> "Prompt", issue |-> run.calls + 1, ok |-> o.ok,
                              text |-> p.prompt])
       /\ run' = [run EXCEPT !.pc = "returned", !.calls = @ + 1, !.prompt = p.prompt,
                             !.source = p.source, !.err = ~o.ok, !.raw = o.raw,
                             !.ret = IF o.ok THEN cleanFixedBody(o.raw) ELSE <<>>]
  /\ UNCHANGED <<cf, mg, store, gen>>

\* ValidateAndFix hands the next issue to fixWithLLM
FixNextIssue ==
  /\ run.pc = "returned"
  /\ run.calls < MaxFixCalls
  /\ \E issue \in FixIssues(store.rules) :
       run' = [run EXCEPT !.pc = "called", !.issue = issue]
  /\ UNCHANGED <<cf, mg, store, log, gen>>

SpecPrompt == InitPrompt /\ [][FixWithLLM \/ FixNextIssue]_vars

\* the validator template is registered with the loader
PrRegistered == "validator" \in DOMAIN store.templates

\* what rendering the registered template gives for the issue of the call
PrRendered ==
  Render(store.templates, "validator",
         [Title |-> run.issue.Title, Body |-> run.issue.Body,
          RequiredSections |-> <<"a">>, LabelPrefix |-> <<"p">>,
          Guidelines |-> store.guidelines.RawContent,
          Instructions |-> store.guidelines.Instructions])

\* the completion service received the prompt of every call once
PrPromptedOnce ==
  /\ Len(log) = run.calls
  /\ \A k \in 1..Len(log) : log[k].op = "Prompt" /\ log[k].issue = k
  /\ log[Len(log)].text = run.prompt

PrLines == SplitLines(TrimSpace(run.raw))

\* the trimmed completion is wrapped in fences: its first line opens a fence
\* and its last line, another line, closes it
PrWrapped ==
  /\ Len(PrLines) >= 2
  /\ HasPrefix(PrLines[1], ValidatorText.Fence)
  /\ PrLines[Len(PrLines)] = ValidatorText.Fence

\* C26: fixWithLLM returns the trimmed completion without its first and last
\* line exactly when the trimmed completion is wrapped in fences, and the
\* whole trimmed completion otherwise
C26_FencesStrippedIffWrapped ==
  (run.pc = "returned" /\ ~run.err) =>
    run.ret = IF PrWrapped
                THEN Join(SubSeq(PrLines, 2, Len(PrLines) - 1), <<"\n">>)
                ELSE TrimSpace(run.raw)

(***************************************************************************)
(* The monitor daemon: runMonitorDaemon around Monitor.CheckStaleTasks     *)
(***************************************************************************)
MaxTicks == 2

\* runMonitorDaemon up to its first check: the signal channel is registered,
\* the ticker runs, and CheckStaleTasks is about to be called.  Issue 1 is
\* unassigned or assigned, stale or fresh; the other issues are fresh.
InitDaemon ==
  /\ cf = Idle
  /\ gen = Idle
  /\ log = <<>>
  /\ store \in {st \in [1..NumMonIssues ->
                         [Assignee : {<<>>, IssueText.Bob}, UpdatedAt : {2, 8}, Comments : {<<>>}]] :
                  \A n \in 2..NumMonIssues : st[n].Assignee = <<>> /\ st[n].UpdatedAt = 8}
  /\ run = MonStart("cli", DefaultStaleDays, [kind |-> "none", val |-> 0], 0)
  /\ mg = [pc |-> "loop", tick |-> FALSE, sig |-> FALSE, ticks |-> 0]

\* the ticker sends on ticker.C, a channel that holds one tick; a tick that
\* finds the channel full is dropped
TickerFires ==
  /\ mg.pc = "loop"
  /\ mg.ticks < MaxTicks
  /\ mg' = [mg EXCEPT !.tick = TRUE, !.ticks = @ + 1]
  /\ UNCHANGED <<cf, store, run, log, gen>>

\* SIGINT or SIGTERM is delivered to sigChan, a channel that holds one signal
SignalDelivered ==
  /\ mg.pc = "loop"
  /\ ~mg.sig
  /\ mg' = [mg EXCEPT !.sig = TRUE]
  /\ log' = Append(log, Event("Signal", 0, TRUE))
  /\ UNCHANGED <<cf, store, run, gen>>

\* the select of the loop receives from ticker.C and calls CheckStaleTasks;
\* the select is reached when the check before has returned
SelectTick ==
  /\ mg.pc = "loop"
  /\ run.pc = "returned"
  /\ mg.tick
  /\ mg' = [mg EXCEPT !.tick = FALSE]
  /\ log' = Append(log, Event("Tick", 0, TRUE))
  /\ run' = MonStart("cli", run.staleThresholdDays, [kind |-> "none", val |-> 0], 0)
  /\ UNCHANGED <<cf, store, gen>>

\* the select of the loop receives from sigChan and the daemon returns
SelectSignal ==
  /\ mg.pc = "loop"
  /\ run.pc = "returned"
  /\ mg.sig
  /\ mg' = [mg EXCEPT !.pc = "returned", !.sig = FALSE]
  /\ UNCHANGED <<cf, store, run, log, gen>>

SpecDaemon ==
  /\ InitDaemon
  /\ [][\/ CheckStaleTasksStart
         \/ CheckStaleTasksIssue
         \/ CheckStaleTasksReturn
         \/ TickerFires
         \/ SignalDelivered
         \/ SelectTick
         \/ SelectSignal]_vars

\* C28: once a shutdown signal has been delivered to the daemon, the loop
\* starts no further stale-task check
C28_NoCheckAfterSignal ==
  \A i, j \in 1..Len(log) :
    (log[i].op = "Signal" /\ log[j].op = "Tick") => j < i

(***************************************************************************)
(* The repository of an issue: the three extractRepoFromURL helpers        *)
(***************************************************************************)
MaxUrlNumber == 3

RECURSIVE Split(_, _)
\* strings.Split(s, sep) for a non-empty sep
Split(s, sep) ==
  LET i == Index(s, sep)
  IN IF i < 0 THEN <<s>> ELSE <<Take(s, i)>> \o Split(Drop(s, i + Len(sep)), sep)

\* extractRepoFromURL of package agent: the two parts after "github.com"
agentExtractRepoFromURL(url) ==
  LET parts == Split(url, <<"/">>)
      at == {i \in 1..Len(parts) : parts[i] = IssueText.GithubCom /\ i + 2 <= Len(parts)}
  IN IF Len(parts) >= 4 /\ at # {}
       THEN LET i == CHOOSE k \in at : \A j \in at : k <= j
            IN [owner |-> parts[i + 1], repo |-> parts[i + 2]]
       ELSE [owner |-> <<>>, repo |-> <<>>]

\* extractRepoFromURL of package plugins: the fourth and the fifth part
pluginsExtractRepoFromURL(url) ==
  LET parts == Split(url, <<"/">>)
  IN IF Len(parts) >= 5 THEN [owner |-> parts[4], repo |-> parts[5]]
     ELSE [owner |-> <<>>, repo |-> <<>>]

\* extractRepoFromURL of package github: the fourth and the fifth part
githubExtractRepoFromURL(url) ==
  LET parts == Split(url, <<"/">>)
  IN IF Len(parts) >= 5 THEN [owner |-> parts[4], repo |-> parts[5]]
     ELSE [owner |-> <<>>, repo |-> <<>>]

\* an issue with a URL scheme://host/owner/repo/issues/N
InitUrl ==
  /\ cf = Idle
  /\ mg = Idle
  /\ gen = Idle
  /\ store = Idle
  /\ log = <<>>
  /\ \E scheme \in {IssueText.Https, IssueText.Http},
        host \in {IssueText.GithubCom, IssueText.Enterprise},
        owner \in {IssueText.Acme, IssueText.Octo, IssueText.GithubCom},
        repo \in {IssueText.App, IssueText.Web},
        n \in 1..MaxUrlNumber :
       run = [pc |-> "input", host |-> host, owner |-> owner, repo |-> repo,
              URL |-> Join(<<scheme, <<>>, host, owner, repo, IssueText.IssuesPath, Itoa(n)>>,
                           <<"/">>),
              agent |-> <<>>, plugins |-> <<>>, github |-> <<>>]

\* the validator and the monitor, the plugin executor and the unified client
\* derive the repository of the issue
ExtractRepoFromURL ==
  /\ run.pc = "input"
  /\ run' = [run EXCEPT !.pc = "done",
                        !.agent = agentExtractRepoFromURL(run.URL),
                        !.plugins = pluginsExtractRepoFromURL(run.URL),
                        !.github = githubExtractRepoFromURL(run.URL)]
  /\ UNCHANGED <<cf, mg, store, log, gen>>

SpecUrl == InitUrl /\ [][ExtractRepoFromURL]_vars

\* C29: for every issue URL scheme://host/owner/repo/issues/N, whatever the
\* host, the three helpers return the same pair, the owner and the
\* repository of the URL
C29_HelpersAgree ==
  run.pc = "done" =>
    /\ run.agent = run.plugins
    /\ run.plugins = run.github
    /\ run.github = [owner |-> run.owner, repo |-> run.repo]

(***************************************************************************)
(* The triggers of an agent file: loadAgentFromFile, parseTriggers and     *)
(* PluginAgent.MatchTrigger                                                *)
(***************************************************************************)
MaxBullets == 2

\* strings.TrimSpace(strings.TrimPrefix(line, prefix)) of a line with the prefix
AfterPrefix(line, prefix) == TrimSpace(Drop(line, Len(prefix)))

\* parseStringList: the parts between commas, without brackets, blanks and
\* quotes, the empty ones left out
parseStringList(s) ==
  LET parts == Split(TrimRightSet(TrimLeftSet(TrimSpace(s), {"[", "]"}), {"[", "]"}), <<",">>)
      clean == [k \in 1..Len(parts) |->
                  TrimRightSet(TrimLeftSet(TrimSpace(parts[k]), {"\"", "'"}), {"\"", "'"})]
  IN SelectSeq(clean, LAMBDA part : part # <<>>)

\* parseTriggers(lines, startIdx), indexes from 1: one trigger collects the
\* bullets up to a blank line or a heading
parseTriggers(lines, startIdx) ==
  LET declared(t) == t.Event # <<>> \/ t.Schedule # <<>> \/ t.Manual
      none == [Event |-> <<>>, Schedule |-> <<>>, Condition |-> <<>>, Manual |-> FALSE,
               Labels |-> <<>>]
      bullet(t, line) ==
        IF HasPrefix(line, TriggerText.EventPre)
          THEN [t EXCEPT !.Event = AfterPrefix(line, TriggerText.EventPre)]
        ELSE IF HasPrefix(line, TriggerText.SchedulePre)
          THEN [t EXCEPT !.Schedule =
                  TrimRightSet(TrimLeftSet(AfterPrefix(line, TriggerText.SchedulePre), {"\""}),
                               {"\""})]
        ELSE IF HasPrefix(line, TriggerText.ConditionPre)
          THEN [t EXCEPT !.Condition = AfterPrefix(line, TriggerText.ConditionPre)]
        ELSE IF HasPrefix(line, TriggerText.ManualPre)
          THEN [t EXCEPT !.Manual =
                  (ToLower(AfterPrefix(line, TriggerText.ManualPre)) = TriggerText.true)]
        ELSE IF HasPrefix(line, TriggerText.LabelsPre)
          THEN [t EXCEPT !.Labels = parseStringList(AfterPrefix(line, TriggerText.LabelsPre))]
        ELSE t
      RECURSIVE from(_, _, _)
      from(i, triggers, currentTrigger) ==
        IF i > Len(lines) \/ i >= startIdx + 20
          THEN IF declared(currentTrigger) THEN Append(triggers, currentTrigger) ELSE triggers
        ELSE LET line == TrimSpace(lines[i])
                 flushed == IF declared(currentTrigger) THEN Append(triggers, currentTrigger)
                            ELSE triggers
             IN IF HasPrefix(line, TriggerText.Hashes) THEN flushed
                ELSE IF line = <<>>
                  THEN from(i + 1, flushed,
                            IF declared(currentTrigger) THEN none ELSE currentTrigger)
                ELSE from(i + 1, triggers, bullet(currentTrigger, line))
  IN from(startIdx, <<>>, none)

\* loadAgentFromFile: the name and the triggers of the agent (the purpose,
\* the type, the actions, the configuration and the prompt path, which no
\* trigger depends on, are left out); every line of the trigger section
\* assigns parseTriggers(lines, i) anew
loadAgentFromFile(content) ==
  LET lines == SplitLines(content)
      RECURSIVE scan(_, _, _)
      scan(i, currentSection, agent) ==
        IF i > Len(lines) THEN agent
        ELSE LET line == lines[i]
             IN IF HasPrefix(line, TriggerText.AgentPre)
                  THEN scan(i + 1, currentSection,
                            [agent EXCEPT !.Name = AfterPrefix(line, TriggerText.AgentPre)])
                ELSE IF HasPrefix(line, TriggerText.PurposePre)
                        \/ HasPrefix(line, TriggerText.TypePre)
                  THEN scan(i + 1, currentSection, agent)
                ELSE IF HasPrefix(line, TriggerText.SectionPre)
                  THEN scan(i + 1, ToLower(AfterPrefix(line, TriggerText.SectionPre)), agent)
                ELSE IF currentSection \in {TriggerText.trigger, TriggerText.triggers}
                  THEN scan(i + 1, currentSection,
                            [agent EXCEPT !.Triggers = parseTriggers(lines, i)])
                ELSE scan(i + 1, currentSection, agent)
  IN scan(1, <<>>, [Name |-> <<>>, Triggers |-> <<>>])

\* PluginAgent.MatchTrigger
MatchTrigger(triggers, event, labels) ==
  \E k \in 1..Len(triggers) :
    IF triggers[k].Event # <<>> /\ triggers[k].Event = event
      THEN \A r \in 1..Len(triggers[k].Labels) :
             \E j \in 1..Len(labels) : labels[j] = triggers[k].Labels[r]
      ELSE triggers[k].Manual /\ event = TriggerText.manual

\* an agent file: the heading of the agent, the Trigger section with its
\* bullets, with or without a blank line after the heading and after the
\* bullets, and the Guidelines section
InitTrigger ==
  /\ cf = Idle
  /\ mg = Idle
  /\ gen = Idle
  /\ store = Idle
  /\ log = <<>>
  /\ \E n \in 1..MaxBullets :
       \E bullets \in [1..n -> {TriggerText.LineOpened, TriggerText.LineEdited,
                                TriggerText.LineManual, TriggerText.LineLabels,
                                TriggerText.LineSchedule}],
          blankBefore \in BOOLEAN, blankAfter \in BOOLEAN :
         run = [pc |-> "file", bullets |-> bullets, blankAfter |-> blankAfter,
                content |-> Join(<<TriggerText.LineAgent, <<>>, TriggerText.LineType, <<>>,
                                   TriggerText.LineTrigger>>
                                 \o (IF blankBefore THEN <<<<>>>> ELSE <<>>)
                                 \o bullets
                                 \o (IF blankAfter THEN <<<<>>>> ELSE <<>>)
                                 \o <<TriggerText.LineGuidelines, <<>>,
                                      TriggerText.LineGuideline, <<>>>>, <<"\n">>),
                agent |-> [Name |-> <<>>, Triggers |-> <<>>],
                event |-> <<>>, labels |-> <<>>, matched |-> FALSE]

\* LoadPlugins loads the agent of the file
LoadAgent ==
  /\ run.pc = "file"
  /\ run' = [run EXCEPT !.pc = "loaded", !.agent = loadAgentFromFile(run.content)]
  /\ UNCHANGED <<cf, mg, store, log, gen>>

\* a caller asks whether an event on an issue with labels triggers the agent
MatchTriggerCall ==
  /\ run.pc = "loaded"
  /\ \E event \in {TriggerText.Opened, TriggerText.Edited, TriggerText.Closed,
                   TriggerText.manual},
        labels \in {<<>>, <<TriggerText.Bug>>, <<TriggerText.Urgent, TriggerText.Bug>>} :
       run' = [run EXCEPT !.pc = "matched", !.event = event, !.labels = labels,
                          !.matched = MatchTrigger(run.agent.Triggers, event, labels)]
  /\ UNCHANGED <<cf, mg, store, log, gen>>

SpecTrigger == InitTrigger /\ [][LoadAgent \/ MatchTriggerCall]_vars

\* the bullets of the file that declare the event, manual triggering, labels
TrHasBullet(line) == \E k \in 1..Len(run.bullets) : run.bullets[k] = line

\* the section lists an event bullet or a manual bullet
TrDeclares ==
  TrHasBullet(TriggerText.LineOpened) \/ TrHasBullet(TriggerText.LineEdited)
    \/ TrHasBullet(TriggerText.LineManual)

\* the labels the section requires are among the labels of the call
TrLabelsPresent ==
  TrHasBullet(TriggerText.LineLabels) =>
    \A l \in {TriggerText.Bug, TriggerText.Urgent} :
      \E j \in 1..Len(run.labels) : run.labels[j] = l

\* C30: an agent file whose Trigger section lists event or manual bullets
\* and ends with a blank line before the next heading loads with a
\* non-empty trigger list; MatchTrigger is true for a listed event when the
\* required labels are present, and for "manual" when manual is declared
C30_ShippedLayoutTriggers ==
  (run.pc \in {"loaded", "matched"} /\ run.blankAfter /\ TrDeclares) =>
    /\ run.agent.Triggers # <<>>
    /\ run.pc = "matched" =>
         /\ (/\ \/ run.event = TriggerText.Opened /\ TrHasBullet(TriggerText.LineOpened)
                \/ run.event = TriggerText.Edited /\ TrHasBullet(TriggerText.LineEdited)
             /\ TrLabelsPresent) => run.matched
         /\ (run.event = TriggerText.manual /\ TrHasBullet(TriggerText.LineManual))
              => run.matched

====
